---- MODULE Spec2Model ----
(***************************************************************************)
(* oas-indexer (cmd/oas-indexer/main.go): fragment aggregation, reference  *)
(* rewriting and the rule-based validation engine.                         *)
(*                                                                         *)
(* Go strings are sequences of one-character strings, so that every        *)
(* conversion (camel-casing, suffix trimming, sorting, reference           *)
(* rewriting) is computed character by character as the code does.         *)
(***************************************************************************)
EXTENDS Integers, Sequences, FiniteSets, TLC

VARIABLES
    cfg,      \* the *Config of the run (main.go:19-48)
    fs,       \* the file system: a set of entries [path, type]
    walk,     \* the order in which a directory walk returns the entries of fs
    pc,       \* position of run() / of the function under test
    val,      \* locals of validatePaths (files left, method keys left, next rule, hasErrors, error)
    results,  \* validationCfg.Results
    evalLog,  \* history: every rule evaluation made, in order
    rootDoc,  \* content of the file cfg.RootPath: Absent or its sequence of lines
    events,   \* history: the stages started and the fragments listed and read by validation, in order
    written,  \* history: the root documents written by successive composer runs
    arg,      \* input of the pure function under test
    ret       \* its result

vars == <<cfg, fs, walk, pc, val, results, evalLog, rootDoc, events, written, arg, ret>>

----------------------------------------------------------------------------
(* Bounds *)

\* longest file base name drawn for the path-key derivation
MaxNameLen == 3

\* most files (directories not counted) a drawn file system holds
MaxFiles == 3

\* most runs of the Root Composer over one file system
MaxRuns == 2

\* most fragment files of the file system a whole run works on
MaxFragments == 2

\* most lines of a text handed to rewriteRefs
MaxLines == 2

----------------------------------------------------------------------------
(* Values that are no string *)

\* a nil error
Nil == <<"nil">>

\* no match of a regular expression
NoMatch == <<"nomatch">>

\* validatePaths has not returned yet
Pending == <<"pending">>

\* run has not returned yet
NotReturned == <<"none">>

\* the root file does not exist
Absent == << <<"absent">> >>

\* the root file is left as it was
Unchanged == << <<"unchanged">> >>

----------------------------------------------------------------------------
(* Strings *)

\* printable ASCII, 32..126, in code order (the backslash and the backtick, which no
\* modelled string holds, are placeholders that keep the positions)
Ascii ==
    << " ", "!", "\"", "#", "$", "%", "&", "'", "(", ")", "*", "+", ",", "-", ".", "/",
       "0", "1", "2", "3", "4", "5", "6", "7", "8", "9", ":", ";", "<", "=", ">", "?",
       "@", "A", "B", "C", "D", "E", "F", "G", "H", "I", "J", "K", "L", "M", "N", "O",
       "P", "Q", "R", "S", "T", "U", "V", "W", "X", "Y", "Z", "[", "BACKSLASH", "]", "^", "_",
       "BACKTICK", "a", "b", "c", "d", "e", "f", "g", "h", "i", "j", "k", "l", "m", "n", "o",
       "p", "q", "r", "s", "t", "u", "v", "w", "x", "y", "z", "{", "|", "}", "~" >>

\* the bytes from 128 on that the modelled strings hold, written xHH: the two bytes of
\* a UTF-8 encoded e-acute (C3 A9) and the bytes the string helpers make of them
High == <<"x82", "x83", "x8F", "xA9", "xAF", "xBD", "xBF", "xC2", "xC3", "xEF">>

HighCode == <<130, 131, 143, 169, 175, 189, 191, 194, 195, 239>>

Chars == {Ascii[i] : i \in DOMAIN Ascii} \cup {"\t", "\n", "\r"} \cup {High[i] : i \in DOMAIN High}

\* the byte value of a character
Code ==
    [c \in Chars |->
        IF c = "\t" THEN 9
        ELSE IF c = "\n" THEN 10
        ELSE IF c = "\r" THEN 13
        ELSE IF \E i \in DOMAIN High : High[i] = c
             THEN HighCode[CHOOSE i \in DOMAIN High : High[i] = c]
        ELSE 31 + (CHOOSE i \in DOMAIN Ascii : Ascii[i] = c)]

\* the character of a byte value (printable ASCII or one of High)
CharOf(n) == IF n < 128 THEN Ascii[n - 31] ELSE High[CHOOSE i \in DOMAIN High : HighCode[i] = n]

\* the UTF-8 encoding of the code point n < 256
EncodeRune(n) ==
    IF n < 128 THEN <<CharOf(n)>>
    ELSE IF n < 192 THEN <<"xC2", CharOf(n)>>
    ELSE <<"xC3", CharOf(n - 64)>>

\* string(c) of a byte c: Go converts an integer to the UTF-8 encoding of the code
\* point of that value, two bytes for a byte from 128 on
ByteString(c) == IF Code[c] < 128 THEN <<c>> ELSE EncodeRune(Code[c])

\* unicode.ToUpper of a code point below 255 other than 181
UpperRune(n) == IF n \in 97..122 \/ (n \in 224..254 /\ n # 247) THEN n - 32 ELSE n

\* utf8.RuneError, U+FFFD, encoded
RuneError == <<"xEF", "xBF", "xBD">>

IsLowerCh(c) == Code[c] \in 97..122

IsUpperCh(c) == Code[c] \in 65..90

IsDigitCh(c) == Code[c] \in 48..57

ToUpperCh(c) == IF IsLowerCh(c) THEN Ascii[Code[c] - 32 - 31] ELSE c

ToLowerCh(c) == IF IsUpperCh(c) THEN Ascii[Code[c] + 32 - 31] ELSE c

\* strings.ToUpper / strings.ToLower
ToUpper(s) == [i \in 1..Len(s) |-> ToUpperCh(s[i])]

ToLower(s) == [i \in 1..Len(s) |-> ToLowerCh(s[i])]

\* strings.HasPrefix / strings.HasSuffix / strings.TrimSuffix
HasPrefix(s, p) == Len(s) >= Len(p) /\ SubSeq(s, 1, Len(p)) = p

HasSuffix(s, p) == Len(s) >= Len(p) /\ SubSeq(s, Len(s) - Len(p) + 1, Len(s)) = p

TrimSuffix(s, p) == IF HasSuffix(s, p) THEN SubSeq(s, 1, Len(s) - Len(p)) ELSE s

\* s[from:] with a 0-based byte offset, as a Go slice expression
From(s, from) == SubSeq(s, from + 1, Len(s))

\* strings.Index: 0-based offset of the first occurrence of sub in s, or -1
Index(s, sub) ==
    LET hits == {i \in 0..(Len(s) - Len(sub)) : SubSeq(s, i + 1, i + Len(sub)) = sub}
    IN  IF hits = {} THEN -1 ELSE CHOOSE i \in hits : \A j \in hits : i <= j

\* strings.LastIndex for a one-character separator
LastIndexCh(s, c) ==
    LET hits == {i \in 0..(Len(s) - 1) : s[i + 1] = c}
    IN  IF hits = {} THEN -1 ELSE CHOOSE i \in hits : \A j \in hits : i >= j

IsSpaceCh(c) == c \in {" ", "\t", "\n", "\r"}

RECURSIVE TrimLeftSpace(_)
TrimLeftSpace(s) ==
    IF s # << >> /\ IsSpaceCh(Head(s)) THEN TrimLeftSpace(Tail(s)) ELSE s

RECURSIVE TrimRightSpace(_)
TrimRightSpace(s) ==
    IF s # << >> /\ IsSpaceCh(s[Len(s)]) THEN TrimRightSpace(SubSeq(s, 1, Len(s) - 1)) ELSE s

\* strings.TrimSpace
TrimSpace(s) == TrimRightSpace(TrimLeftSpace(s))

\* strings.Split(s, sep) for a one-character separator: never empty, Split("") = [""]
RECURSIVE SplitCh(_, _)
SplitCh(s, c) ==
    LET i == Index(s, <<c>>)
    IN  IF i < 0 THEN <<s>>
        ELSE <<SubSeq(s, 1, i)>> \o SplitCh(From(s, i + 1), c)

\* strings.Join
RECURSIVE Join(_, _)
Join(parts, sep) ==
    IF parts = << >> THEN << >>
    ELSE IF Len(parts) = 1 THEN parts[1]
    ELSE parts[1] \o sep \o Join(Tail(parts), sep)

\* a < b as Go compares strings (byte-wise lexicographic)
RECURSIVE StrLess(_, _)
StrLess(a, b) ==
    IF b = << >> THEN FALSE
    ELSE IF a = << >> THEN TRUE
    ELSE IF Head(a) # Head(b) THEN Code[Head(a)] < Code[Head(b)]
    ELSE StrLess(Tail(a), Tail(b))

\* sort.Strings: insertion of x into an ascending sequence, then the sort itself
RECURSIVE InsertSorted(_, _)
InsertSorted(x, s) ==
    IF s = << >> THEN <<x>>
    ELSE IF StrLess(x, Head(s)) THEN <<x>> \o s
    ELSE <<Head(s)>> \o InsertSorted(x, Tail(s))

\* a sort that leaves the slice as it was
SortStringsLeftUnsorted(s) == s

RECURSIVE SortStrings(_)
SortStrings(s) ==
    IF s = << >> THEN << >> ELSE InsertSorted(Head(s), SortStrings(Tail(s)))

----------------------------------------------------------------------------
(* File paths (path/filepath on a slash-separated, already clean path) *)

Slash == <<"/">>

\* filepath.Base and filepath.Dir of a clean absolute path
Base(p) == From(p, LastIndexCh(p, "/") + 1)

Dir(p) ==
    LET i == LastIndexCh(p, "/")
    IN  IF i <= 0 THEN Slash ELSE SubSeq(p, 1, i)

\* filepath.Join(dir, name)
JoinPath(dir, name) == IF dir = Slash THEN dir \o name ELSE dir \o Slash \o name

\* the segments of a clean absolute path ("/" has none)
Segments(p) == IF p = Slash THEN << >> ELSE SplitCh(From(p, 1), "/")

\* length of the longest common prefix of two segment sequences
RECURSIVE CommonLen(_, _)
CommonLen(a, b) ==
    IF a = << >> \/ b = << >> \/ Head(a) # Head(b) THEN 0
    ELSE 1 + CommonLen(Tail(a), Tail(b))

\* the rest of filepath.Rel, on the segments b of base and t of target that share
\* their first n segments
RelClimb(b, t, n) == [i \in 1..(Len(b) - n) |-> <<".",".">>] \o SubSeq(t, n + 1, Len(t))

RelJoin(rest) == IF rest = << >> THEN <<".">> ELSE Join(rest, Slash)

RelSegments(b, t) == RelJoin(RelClimb(b, t, CommonLen(b, t)))

\* filepath.Rel(base, target) for two clean absolute paths: it cannot fail for those,
\* and gives "." for equal paths and one ".." per segment of base left to climb
Rel(base, target) == RelSegments(Segments(base), Segments(target))

----------------------------------------------------------------------------
(* String helpers of the program *)

\* strings.ToUpper(string(c)) of a byte c
UpperByteString(c) == IF Code[c] < 128 THEN <<ToUpperCh(c)>> ELSE EncodeRune(UpperRune(Code[c]))

\* the loop of kebabToCamel over the bytes of s
RECURSIVE kebabLoop(_, _, _, _)
kebabLoop(s, i, up, out) ==
    IF i > Len(s) THEN out
    ELSE IF s[i] \in {"-", "_", " "} THEN kebabLoop(s, i + 1, TRUE, out)
    ELSE IF up THEN kebabLoop(s, i + 1, FALSE, out \o UpperByteString(s[i]))
    ELSE kebabLoop(s, i + 1, FALSE, out \o ByteString(s[i]))

kebabToCamel(s) == kebabLoop(s, 1, FALSE, << >>)

\* strings.ToUpper(camel[:1]): camel[:1] is one byte, and a byte from 128 on is no
\* valid UTF-8, which strings.ToUpper replaces by utf8.RuneError
UpperFirstByte(c) == IF Code[c] < 128 THEN <<ToUpperCh(c)>> ELSE RuneError

UpperFirst(camel) ==
    IF camel = << >> THEN camel ELSE UpperFirstByte(camel[1]) \o Tail(camel)

pascalCase(s) == UpperFirst(kebabToCamel(s))

YamlExt == <<".","y","a","m","l">>

\* buildPathKey from the split on: segs are the directory segments, tail the
\* camel-cased file name
PathKeyOf(segs, tail) ==
    IF Len(segs) = 0 THEN Slash \o tail
    ELSE IF Len(segs) > 1 /\ Join(Tail(segs), Slash) # << >>
         THEN Slash \o segs[1] \o Slash \o Join(Tail(segs), Slash) \o Slash \o tail
    ELSE Slash \o segs[1] \o Slash \o tail

PathKeyOfSplit(segs) ==
    PathKeyOf(SubSeq(segs, 1, Len(segs) - 1), kebabToCamel(TrimSuffix(segs[Len(segs)], YamlExt)))

buildPathKey(pathsDir, fullPath) == PathKeyOfSplit(SplitCh(Rel(pathsDir, fullPath), "/"))

----------------------------------------------------------------------------
(* Configuration (buildConfig) *)

InputDir == <<"/","a","p","i">>

PathsDir == JoinPath(InputDir, <<"p","a","t","h","s">>)

SchemasDir == JoinPath(JoinPath(InputDir, <<"c","o","m","p","o","n","e","n","t","s">>), <<"s","c","h","e","m","a","s">>)

ParamsDir == JoinPath(JoinPath(InputDir, <<"c","o","m","p","o","n","e","n","t","s">>), <<"p","a","r","a","m","e","t","e","r","s">>)

----------------------------------------------------------------------------
(* Fragment Store: the file system and listYAMLFiles *)

\* An entry of fs is [path, type]: type is "file" (a regular file), "dir" or "symlink".
\* Every directory above an entry, up to "/", is an entry of fs too.

IsDir(p) == \E e \in fs : e.path = p /\ e.type = "dir"

\* p lies below root
IsBelow(root, p) == p # root /\ HasPrefix(p, IF root = Slash THEN root ELSE root \o Slash)

\* The callback handed to filepath.WalkDir, on the entry e: "SkipDir" prunes the
\* directory, "append" adds the path to the result, "nil" goes on.
walkFn(root, e) ==
    LET name == Base(e.path)
    IN  IF HasPrefix(name, <<".">>) /\ e.type = "dir" /\ e.path # root THEN "SkipDir"
        ELSE IF e.type = "file" /\ HasSuffix(ToLower(name), YamlExt) THEN "append"
        ELSE "nil"

\* filepath.WalkDir visits root and every entry below it that lies in no pruned directory
Visited(root) ==
    {e \in fs :
        /\ e.path = root \/ IsBelow(root, e.path)
        /\ ~ \E d \in fs :
               /\ IsBelow(root, d.path) \/ d.path = root
               /\ IsBelow(d.path, e.path)
               /\ walkFn(root, d) = "SkipDir"}

\* listYAMLFiles without the os.Stat guard: the walk of a root that is no directory
\* hands its lstat error to the callback, which returns it
listYAMLFilesUnguarded(root) ==
    LET found == {e.path : e \in {v \in Visited(root) : walkFn(root, v) = "append"}}
        Found(p) == p \in found
    IN  IF ~IsDir(root) THEN [files |-> << >>, err |-> <<"lstat", root>>]
        ELSE [files |-> SelectSeq(walk, Found), err |-> Nil]

\* The result, in the order in which the walk returns the entries. The order of a
\* directory walk is the file system's and the library's, not this program's: it is
\* any order (walk), the same for every listing of one run.
\* The result is [files, err]; err is Nil unless the walk itself fails, which it does
\* only on a root that is no directory (and the stat guard returns before that).
listYAMLFiles(root) ==
    LET found == {e.path : e \in {v \in Visited(root) : walkFn(root, v) = "append"}}
        Found(p) == p \in found
    IN  IF ~IsDir(root) THEN [files |-> << >>, err |-> Nil]
        ELSE [files |-> SelectSeq(walk, Found), err |-> Nil]

----------------------------------------------------------------------------
(* Fragment contents *)

\* A file's content is [kind, text, parsed]: kind is "ok", "malformed" (the text is no
\* YAML mapping: yaml.Unmarshal fails) or "unreadable" (reading the file fails); text is
\* the content, written here as Text of its strings.Split(content, "\n"), so that a
\* text that ends in a newline has a last, empty line; parsed is what yaml.Unmarshal gives, a function from the top-level keys to an
\* operation or to Scalar (a non-mapping value). Of an operation the model keeps what
\* the rules read: whether it has the keys operationId and summary, and whether its
\* responses are "missing" (or no mapping), a mapping "without200" or one "with200".

Scalar == [scalar |-> TRUE]

Op(id, summary, responses) == [operationId |-> id, summary |-> summary, responses |-> responses]

NoKeys == [k \in {} |-> Scalar]

NewLine == <<"\n">>

\* the string whose lines, in the sense of strings.Split(s, "\n"), are these
Text(lines) == Join(lines, NewLine)

Plain(lines) == [kind |-> "ok", text |-> Text(lines), parsed |-> NoKeys]

Content(p) ==
    CASE p = <<"/","a","p","i","/","p","a","t","h","s","/","v","1","/","u","s","e","r","s",".","y","a","m","l">> ->
            [kind |-> "ok",
             text |-> Text(<<<<"s","u","m","m","a","r","y",":"," ","U","s","e","r","s">>, <<"g","e","t",":">>, <<" "," ","r","e","s","p","o","n","s","e","s",":">>, <<" "," "," "," ","'","2","0","0","'",":">>,
                        <<" "," "," "," "," "," ","$","r","e","f",":"," ",".",".","/",".",".","/","c","o","m","p","o","n","e","n","t","s","/","s","c","h","e","m","a","s","/","f","o","o","b","a","r",".","y","a","m","l">>, << >>>>),
             parsed |-> (<<"s","u","m","m","a","r","y">> :> Scalar) @@ (<<"g","e","t">> :> Op(FALSE, FALSE, "with200"))]
      [] p = <<"/","a","p","i","/","p","a","t","h","s","/","v","1","/","a","c","c","o","u","n","t","/","{","a","c","c","o","u","n","t","I","d","}",".","y","a","m","l">> ->
            [kind |-> "ok",
             text |-> Text(<<<<"g","e","t",":">>, <<" "," ","o","p","e","r","a","t","i","o","n","I","d",":"," ","g","e","t","A","c","c","o","u","n","t">>, <<" "," ","s","u","m","m","a","r","y",":"," ","A","c","c","o","u","n","t">>,
                        <<" "," ","r","e","s","p","o","n","s","e","s",":"," ","{","'","2","0","0","'",":"," ","{","$","r","e","f",":"," ","\"","s","c","h","e","m","a",":","u","s","e","r","-","a","c","c","o","u","n","t","\"","}","}">>,
                        <<"d","e","l","e","t","e",":">>, <<" "," ","o","p","e","r","a","t","i","o","n","I","d",":"," ","d","r","o","p","A","c","c","o","u","n","t">>, <<" "," ","s","u","m","m","a","r","y",":"," ","D","r","o","p">>, << >>>>),
             parsed |-> (<<"g","e","t">> :> Op(TRUE, TRUE, "with200")) @@ (<<"d","e","l","e","t","e">> :> Op(TRUE, TRUE, "missing"))]
      [] p = <<"/","a","p","i","/","p","a","t","h","s","/","v","1","/","f","o","o","/","l","i","s","t","-","i","t","e","m","s",".","y","a","m","l">> ->
            [kind |-> "ok",
             text |-> Text(<<<<"P","O","S","T",":">>, <<" "," ","o","p","e","r","a","t","i","o","n","I","d",":"," ","l","i","s","t","I","t","e","m","s">>, <<" "," ","s","u","m","m","a","r","y",":"," ","I","t","e","m","s">>,
                        <<" "," ","p","a","r","a","m","e","t","e","r","s",":">>, <<" "," "," "," ","-"," ","$","r","e","f",":"," ","p","a","r","a","m",":","u","s","e","r","-","i","d">>, << >>, << >>>>),
             parsed |-> (<<"P","O","S","T">> :> Op(TRUE, TRUE, "missing"))]
      [] p = <<"/","a","p","i","/","p","a","t","h","s","/","v","1","/","u","s","e","r","s","/","{","u","s","e","r","-","i","d","}",".","y","a","m","l">> ->
            [kind |-> "ok",
             text |-> Text(<<<<"g","e","t",":">>, <<" "," ","o","p","e","r","a","t","i","o","n","I","d",":"," ","g","e","t","U","s","e","r">>, <<" "," ","s","u","m","m","a","r","y",":"," ","U","s","e","r">>,
                        <<" "," ","r","e","s","p","o","n","s","e","s",":"," ","{","'","2","0","0","'",":"," ","{","$","r","e","f",":"," ","\"","s","c","h","e","m","a",":","u","s","e","r","\"","}","}">>, << >>>>),
             parsed |-> (<<"g","e","t">> :> Op(TRUE, TRUE, "with200"))]
      [] p = <<"/","a","p","i","/","p","a","t","h","s","/","v","1","/","o","r","d","e","r","s",".","y","a","m","l">> ->
            [kind |-> "ok",
             text |-> Text(<<<<"g","e","t",":">>, <<" "," ","o","p","e","r","a","t","i","o","n","I","d",":"," ","l","i","s","t","O","r","d","e","r","s">>, <<" "," ","s","u","m","m","a","r","y",":"," ","O","r","d","e","r","s">>,
                        <<" "," ","r","e","s","p","o","n","s","e","s",":"," ","{","'","2","0","0","'",":"," ","{","d","e","s","c","r","i","p","t","i","o","n",":"," ","o","k","}","}">>,
                        <<"p","o","s","t",":">>, <<" "," ","o","p","e","r","a","t","i","o","n","I","d",":"," ","a","d","d","O","r","d","e","r">>, <<" "," ","s","u","m","m","a","r","y",":"," ","A","d","d">>, << >>>>),
             parsed |-> (<<"g","e","t">> :> Op(TRUE, TRUE, "with200")) @@ (<<"p","o","s","t">> :> Op(TRUE, TRUE, "missing"))]
      [] p = <<"/","a","p","i","/","p","a","t","h","s","/","v","1","-","b","e","t","a","/","o","r","d","e","r","s",".","y","a","m","l">> ->
            [kind |-> "ok",
             text |-> Text(<<<<"t","r","a","c","e",":">>, <<" "," ","s","u","m","m","a","r","y",":"," ","T","r","a","c","e">>, << >>>>),
             parsed |-> (<<"t","r","a","c","e">> :> Op(FALSE, TRUE, "missing"))]
      [] p = <<"/","a","p","i","/","p","a","t","h","s","/","v","1","/","b","r","o","k","e","n",".","y","a","m","l">> ->
            [kind |-> "malformed", text |-> Text(<<<<"g","e","t",":"," ","[">>, << >>>>), parsed |-> NoKeys]
      [] p = <<"/","a","p","i","/","p","a","t","h","s","/","v","1","/","l","o","c","k","e","d",".","y","a","m","l">> ->
            [kind |-> "unreadable", text |-> << >>, parsed |-> NoKeys]
      [] p = <<"/","a","p","i","/","c","o","m","p","o","n","e","n","t","s","/","s","c","h","e","m","a","s","/","f","o","o","B","a","r",".","y","a","m","l">> -> Plain(<<<<"t","y","p","e",":"," ","o","b","j","e","c","t">>, << >>>>)
      [] p = <<"/","a","p","i","/","c","o","m","p","o","n","e","n","t","s","/","s","c","h","e","m","a","s","/","f","o","o","b","a","r",".","y","a","m","l">> -> Plain(<<<<"t","y","p","e",":"," ","s","t","r","i","n","g">>, << >>>>)
      [] p = <<"/","a","p","i","/","c","o","m","p","o","n","e","n","t","s","/","s","c","h","e","m","a","s","/","u","s","e","r","-","a","c","c","o","u","n","t",".","y","a","m","l">> ->
            Plain(<<<<"a","l","l","O","f",":">>, <<" "," ","-"," ","$","r","e","f",":"," ","'",".",".","/","s","c","h","e","m","a","s","/","f","o","o","B","a","r",".","y","a","m","l","'">>, <<" "," ","-"," ","$","r","e","f",":"," ","#","/","c","o","m","p","o","n","e","n","t","s","/","s","c","h","e","m","a","s","/","B","a","s","e">>, << >>>>)
      [] p = <<"/","a","p","i","/","c","o","m","p","o","n","e","n","t","s","/","p","a","r","a","m","e","t","e","r","s","/","u","s","e","r","-","i","d",".","y","a","m","l">> ->
            Plain(<<<<"n","a","m","e",":"," ","u","s","e","r","I","d">>, <<"i","n",":"," ","p","a","t","h">>, << >>>>)
      [] OTHER -> Plain(<<<< >>>>)

\* the error of a read that the file's permissions forbid
ReadError(p) == <<"o","p","e","n"," ">> \o p \o <<":"," ","p","e","r","m","i","s","s","i","o","n"," ","d","e","n","i","e","d">>

\* readText: [err, text]
ReadOutcome(p, content) ==
    IF content.kind = "unreadable" THEN [err |-> ReadError(p), text |-> << >>]
    ELSE [err |-> Nil, text |-> content.text]

readText(p) == ReadOutcome(p, Content(p))

----------------------------------------------------------------------------
(* Reference Rewriter *)

\* m[k] of a Go map[string]string: "" for a key the map does not hold
Lookup(m, k) == IF k \in DOMAIN m THEN m[k] ELSE << >>

\* m with m[k] = v assigned
Assign(m, k, v) == [x \in DOMAIN m \cup {k} |-> IF x = k THEN v ELSE m[x]]

\* the two assignments buildNameMap makes for the file of base name file
AssignNames(m, file) ==
    Assign(Assign(m, ToLower(TrimSuffix(file, YamlExt)), pascalCase(TrimSuffix(file, YamlExt))),
           ToLower(file), pascalCase(TrimSuffix(file, YamlExt)))

RECURSIVE nameMapLoop(_, _)
nameMapLoop(files, m) ==
    IF files = << >> THEN m
    ELSE nameMapLoop(Tail(files), AssignNames(m, Base(Head(files))))

buildNameMap(dir) == nameMapLoop(listYAMLFiles(dir).files, << >>)

\* stripQuotes after its strings.TrimSpace
Unquoted(s) ==
    IF /\ Len(s) >= 2
       /\ \/ s[1] = "\"" /\ s[Len(s)] = "\""
          \/ s[1] = "'" /\ s[Len(s)] = "'"
    THEN SubSeq(s, 2, Len(s) - 1)
    ELSE s

stripQuotes(s) == Unquoted(TrimSpace(s))

\* reSchemaPath and reParamPath, (?i)(?:^|.*/)(?:components/)?<word>/([^/#\s]+)\.ya?ml$,
\* on v: the capture group, or "nomatch". The capture holds no "/", so it is what lies
\* between the last "/" and the extension, and <word>/ must end at that "/" and start
\* the string or follow another "/".

\* length of the extension \.ya?ml that ends the lower-cased value, 0 for none
ExtLen(low) ==
    IF HasSuffix(low, <<".","y","a","m","l">>) THEN Len(<<".","y","a","m","l">>)
    ELSE IF HasSuffix(low, <<".","y","m","l">>) THEN Len(<<".","y","m","l">>) ELSE 0

\* cap is what follows the last "/", before is the lower-cased value up to that "/"
Captured(word, cap, before) ==
    IF cap = << >> THEN NoMatch
    ELSE IF \E i \in DOMAIN cap : cap[i] = "#" \/ IsSpaceCh(cap[i]) THEN NoMatch
    ELSE IF ~HasSuffix(before, word \o Slash) THEN NoMatch
    ELSE IF Len(before) = Len(word) + 1 \/ before[Len(before) - Len(word) - 1] = "/" THEN cap
    ELSE NoMatch

\* body is the value without its extension, q the 0-based offset of its last "/"
SubmatchAt(word, low, body, q) ==
    IF q < 0 THEN NoMatch
    ELSE Captured(word, From(body, q + 1), SubSeq(low, 1, q + 1))

SubmatchIn(word, low, body) == SubmatchAt(word, low, body, LastIndexCh(body, "/"))

FindSubmatch(word, v) ==
    IF ExtLen(ToLower(v)) = 0 THEN NoMatch
    ELSE SubmatchIn(word, ToLower(v), SubSeq(v, 1, Len(v) - ExtLen(ToLower(v))))

RefMarker == <<"$","r","e","f",":">>

\* the name for a file-path reference that captured cap: the map's, else its Pascal case
NameOr(name, cap) == IF name = << >> THEN pascalCase(cap) ELSE name

\* the body of the loop of rewriteRefs from "file path style" on: ms and mp are what
\* reSchemaPath and reParamPath capture in the value
RewriteFilePath(ln, left, ms, mp, schemaMap, paramMap) ==
    IF ms # NoMatch
    THEN left \o <<"$","r","e","f",":"," ","#","/","c","o","m","p","o","n","e","n","t","s","/","s","c","h","e","m","a","s","/">> \o NameOr(Lookup(schemaMap, ToLower(ms)), ms)
    ELSE IF mp # NoMatch
    THEN left \o <<"$","r","e","f",":"," ","#","/","c","o","m","p","o","n","e","n","t","s","/","p","a","r","a","m","e","t","e","r","s","/">> \o NameOr(Lookup(paramMap, ToLower(mp)), mp)
    ELSE ln

\* a rewriter without the "already internal" test
RewriteValueOfAnyForm(ln, left, v, schemaMap, paramMap) ==
    IF HasPrefix(ToLower(v), <<"s","c","h","e","m","a",":">>)
    THEN left \o <<"$","r","e","f",":"," ","#","/","c","o","m","p","o","n","e","n","t","s","/","s","c","h","e","m","a","s","/">> \o pascalCase(TrimSpace(From(v, Len(<<"s","c","h","e","m","a",":">>))))
    ELSE IF HasPrefix(ToLower(v), <<"p","a","r","a","m",":">>)
    THEN left \o <<"$","r","e","f",":"," ","#","/","c","o","m","p","o","n","e","n","t","s","/","p","a","r","a","m","e","t","e","r","s","/">> \o pascalCase(TrimSpace(From(v, Len(<<"p","a","r","a","m",":">>))))
    ELSE RewriteFilePath(ln, left, FindSubmatch(<<"s","c","h","e","m","a","s">>, v), FindSubmatch(<<"p","a","r","a","m","e","t","e","r","s">>, v),
                         schemaMap, paramMap)

\* a rewriter that looks the name of a pseudo form up in the name maps
RewriteValueThroughMaps(ln, left, v, schemaMap, paramMap) ==
    IF HasPrefix(v, <<"#","/","c","o","m","p","o","n","e","n","t","s","/">>) THEN ln
    ELSE IF HasPrefix(ToLower(v), <<"s","c","h","e","m","a",":">>)
    THEN left \o <<"$","r","e","f",":"," ","#","/","c","o","m","p","o","n","e","n","t","s","/","s","c","h","e","m","a","s","/">>
         \o NameOr(Lookup(schemaMap, ToLower(TrimSpace(From(v, Len(<<"s","c","h","e","m","a",":">>))))),
                   TrimSpace(From(v, Len(<<"s","c","h","e","m","a",":">>))))
    ELSE IF HasPrefix(ToLower(v), <<"p","a","r","a","m",":">>)
    THEN left \o <<"$","r","e","f",":"," ","#","/","c","o","m","p","o","n","e","n","t","s","/","p","a","r","a","m","e","t","e","r","s","/">>
         \o NameOr(Lookup(paramMap, ToLower(TrimSpace(From(v, Len(<<"p","a","r","a","m",":">>))))),
                   TrimSpace(From(v, Len(<<"p","a","r","a","m",":">>))))
    ELSE RewriteFilePath(ln, left, FindSubmatch(<<"s","c","h","e","m","a","s">>, v), FindSubmatch(<<"p","a","r","a","m","e","t","e","r","s">>, v),
                         schemaMap, paramMap)

\* the body of the loop from "Already internal" on: v is the unquoted value
RewriteValue(ln, left, v, schemaMap, paramMap) ==
    IF HasPrefix(v, <<"#","/","c","o","m","p","o","n","e","n","t","s","/">>) THEN ln
    ELSE IF HasPrefix(ToLower(v), <<"s","c","h","e","m","a",":">>)
    THEN left \o <<"$","r","e","f",":"," ","#","/","c","o","m","p","o","n","e","n","t","s","/","s","c","h","e","m","a","s","/">> \o pascalCase(TrimSpace(From(v, Len(<<"s","c","h","e","m","a",":">>))))
    ELSE IF HasPrefix(ToLower(v), <<"p","a","r","a","m",":">>)
    THEN left \o <<"$","r","e","f",":"," ","#","/","c","o","m","p","o","n","e","n","t","s","/","p","a","r","a","m","e","t","e","r","s","/">> \o pascalCase(TrimSpace(From(v, Len(<<"p","a","r","a","m",":">>))))
    ELSE RewriteFilePath(ln, left, FindSubmatch(<<"s","c","h","e","m","a","s">>, v), FindSubmatch(<<"p","a","r","a","m","e","t","e","r","s">>, v),
                         schemaMap, paramMap)

\* the body of the loop once the marker is found: rest is what follows it, trimmed
RewriteRest(ln, left, rest, schemaMap, paramMap) ==
    IF rest = << >> THEN ln
    ELSE RewriteValue(ln, left, stripQuotes(rest), schemaMap, paramMap)

\* the body of the loop of rewriteRefs: the line that replaces ln
rewriteLine(ln, schemaMap, paramMap) ==
    IF Index(ln, RefMarker) < 0 THEN ln
    ELSE RewriteRest(ln, SubSeq(ln, 1, Index(ln, RefMarker)),
                     TrimSpace(From(ln, Index(ln, RefMarker) + Len(RefMarker))),
                     schemaMap, paramMap)

\* rewriteRefs: the loop over strings.Split(raw, "\n"), and the strings.Join of the lines
rewriteLines(lines, schemaMap, paramMap) ==
    [i \in 1..Len(lines) |-> rewriteLine(lines[i], schemaMap, paramMap)]

rewriteRefs(raw, schemaMap, paramMap) ==
    Join(rewriteLines(SplitCh(raw, "\n"), schemaMap, paramMap), NewLine)

----------------------------------------------------------------------------
(* Root Composer *)

Spaces(n) == [i \in 1..n |-> " "]

RECURSIVE DropTrailingEmpty(_)
DropTrailingEmpty(lines) ==
    IF lines # << >> /\ lines[Len(lines)] = << >>
    THEN DropTrailingEmpty(SubSeq(lines, 1, Len(lines) - 1))
    ELSE lines

\* the "\n" that indentText adds back ends the last line left (an empty one when
\* nothing is left)
Terminated(kept) == IF kept = << >> THEN << << >> >> ELSE kept

\* indentText: the newline-terminated lines of its result. Trimming every trailing
\* "\n" of the joined lines drops the trailing empty lines.
IndentedLines(lines, spaces) ==
    [i \in 1..Len(lines) |-> IF lines[i] = << >> THEN << >> ELSE Spaces(spaces) \o lines[i]]

indentText(s, spaces) == Terminated(DropTrailingEmpty(IndentedLines(SplitCh(s, "\n"), spaces)))

\* relFrom once filepath.Rel has given rel
RelPrefixed(rel) ==
    IF rel = << >> \/ rel = <<".">> THEN <<".","/">>
    ELSE IF HasPrefix(rel, <<".">>) \/ HasPrefix(rel, Slash) THEN rel
    ELSE <<".","/">> \o rel

relFrom(baseDir, target) == RelPrefixed(Rel(baseDir, target))

Header == <<<<"o","p","e","n","a","p","i",":"," ","\"","3",".","0",".","0","\"">>, <<"i","n","f","o",":">>, <<" "," ","t","i","t","l","e",":"," ","A","P","I">>, <<" "," ","v","e","r","s","i","o","n",":"," ","\"","1",".","0",".","0","\"">>>>

PathIndent == 4

ComponentIndent == 6

\* what writeRootYAML prints for the path fragment p of key key
RefPathEntry(c, p, key) ==
    IF key = << >> THEN << >>
    ELSE << <<" "," ">> \o key \o <<":">>, <<" "," "," "," ","$","r","e","f",":"," ">> \o relFrom(Dir(c.RootPath), p) >>

\* the loops of writeRootYAML: the lines printed for the files left
RECURSIVE refPathEntries(_, _)
refPathEntries(c, files) ==
    IF files = << >> THEN << >>
    ELSE RefPathEntry(c, Head(files), buildPathKey(c.PathsDir, Head(files)))
         \o refPathEntries(c, Tail(files))

RECURSIVE refComponentEntries(_, _)
refComponentEntries(c, files) ==
    IF files = << >> THEN << >>
    ELSE << <<" "," "," "," ">> \o pascalCase(TrimSuffix(Base(Head(files)), YamlExt)) \o <<":">>,
            <<" "," "," "," "," "," ","$","r","e","f",":"," ">> \o relFrom(Dir(c.RootPath), Head(files)) >>
         \o refComponentEntries(c, Tail(files))

\* the document writeRootYAML prints for the three lists, as they are
ReferenceDocument(c, paths, schemas, params) ==
    Header \o <<<<"p","a","t","h","s",":">>>> \o refPathEntries(c, paths)
    \o <<<<"c","o","m","p","o","n","e","n","t","s",":">>, <<" "," ","s","c","h","e","m","a","s",":">>>> \o refComponentEntries(c, schemas)
    \o <<<<" "," ","p","a","r","a","m","e","t","e","r","s",":">>>> \o refComponentEntries(c, params)

\* writeRootYAML once the three directories are listed
ReferenceFromLists(c, paths, schemas, params) ==
    IF paths.err # Nil THEN [err |-> paths.err, doc |-> Unchanged]
    ELSE IF schemas.err # Nil THEN [err |-> schemas.err, doc |-> Unchanged]
    ELSE IF params.err # Nil THEN [err |-> params.err, doc |-> Unchanged]
    ELSE [err |-> Nil,
          doc |-> ReferenceDocument(c, SortStrings(paths.files), SortStrings(schemas.files),
                                    SortStrings(params.files))]

\* writeRootYAML: [err, doc], doc being the lines the root file holds on return
writeRootYAML(c) ==
    ReferenceFromLists(c, listYAMLFiles(c.PathsDir), listYAMLFiles(c.SchemasDir),
                       listYAMLFiles(c.ParamsDir))

\* one turn of a loop of writeRootJoinedYAML, as [err, lines]: the entry line head and
\* the fragment's text, rewritten and indented, before the lines of the turns that
\* follow (more); a failed read ends the loop with its error
JoinedBlock(head, content, indent, more, schemaMap, paramMap) ==
    IF content.err # Nil THEN [err |-> content.err, lines |-> << >>]
    ELSE [err |-> more.err,
          lines |-> <<head>> \o indentText(rewriteRefs(content.text, schemaMap, paramMap), indent)
                    \o more.lines]

JoinedPathEntry(p, key, more, schemaMap, paramMap) ==
    IF key = << >> THEN more
    ELSE JoinedBlock(<<" "," ">> \o key \o <<":">>, readText(p), PathIndent, more, schemaMap, paramMap)

RECURSIVE joinedPathEntries(_, _, _, _)
joinedPathEntries(c, files, schemaMap, paramMap) ==
    IF files = << >> THEN [err |-> Nil, lines |-> << >>]
    ELSE JoinedPathEntry(Head(files), buildPathKey(c.PathsDir, Head(files)),
                         joinedPathEntries(c, Tail(files), schemaMap, paramMap),
                         schemaMap, paramMap)

RECURSIVE joinedComponentEntries(_, _, _)
joinedComponentEntries(files, schemaMap, paramMap) ==
    IF files = << >> THEN [err |-> Nil, lines |-> << >>]
    ELSE JoinedBlock(<<" "," "," "," ">> \o pascalCase(TrimSuffix(Base(Head(files)), YamlExt)) \o <<":">>,
                     readText(Head(files)), ComponentIndent,
                     joinedComponentEntries(Tail(files), schemaMap, paramMap),
                     schemaMap, paramMap)

\* writeRootJoinedYAML from the three loops' outcomes. A read that fails returns
\* before w.Flush(): the file, created empty, keeps none of the lines buffered so far
\* (the documents here are shorter than the 4096-byte buffer of bufio.Writer).
JoinedDocument(pe, se, me) ==
    IF pe.err # Nil THEN [err |-> pe.err, doc |-> << >>]
    ELSE IF se.err # Nil THEN [err |-> se.err, doc |-> << >>]
    ELSE IF me.err # Nil THEN [err |-> me.err, doc |-> << >>]
    ELSE [err |-> Nil,
          doc |-> Header \o <<<<"p","a","t","h","s",":">>>> \o pe.lines
                  \o <<<<"c","o","m","p","o","n","e","n","t","s",":">>, <<" "," ","s","c","h","e","m","a","s",":">>>> \o se.lines
                  \o <<<<" "," ","p","a","r","a","m","e","t","e","r","s",":">>>> \o me.lines]

\* writeRootJoinedYAML from the three lists, as they are, and the two name maps
JoinedWithMaps(c, paths, schemas, params, schemaMap, paramMap) ==
    JoinedDocument(joinedPathEntries(c, paths, schemaMap, paramMap),
                   joinedComponentEntries(schemas, schemaMap, paramMap),
                   joinedComponentEntries(params, schemaMap, paramMap))

\* writeRootJoinedYAML once the three directories are listed
JoinedFromLists(c, paths, schemas, params) ==
    IF paths.err # Nil THEN [err |-> paths.err, doc |-> Unchanged]
    ELSE IF schemas.err # Nil THEN [err |-> schemas.err, doc |-> Unchanged]
    ELSE IF params.err # Nil THEN [err |-> params.err, doc |-> Unchanged]
    ELSE JoinedWithMaps(c, SortStrings(paths.files), SortStrings(schemas.files),
                        SortStrings(params.files),
                        buildNameMap(c.SchemasDir), buildNameMap(c.ParamsDir))

\* writeRootJoinedYAML: [err, doc]
writeRootJoinedYAML(c) ==
    JoinedFromLists(c, listYAMLFiles(c.PathsDir), listYAMLFiles(c.SchemasDir),
                    listYAMLFiles(c.ParamsDir))

----------------------------------------------------------------------------
(* Rule Engine: the built-in rules *)

\* A rule's Validate gives Nil or the message of its error.

RECURSIVE TrimLeftSlash(_)
TrimLeftSlash(s) == IF s # << >> /\ Head(s) = "/" THEN TrimLeftSlash(Tail(s)) ELSE s

RECURSIVE TrimRightSlash(_)
TrimRightSlash(s) ==
    IF s # << >> /\ s[Len(s)] = "/" THEN TrimRightSlash(SubSeq(s, 1, Len(s) - 1)) ELSE s

\* strings.Split(strings.Trim(path, "/"), "/")
PathSegments(path) == SplitCh(TrimRightSlash(TrimLeftSlash(path)), "/")

\* regexp ^v\d+$
IsVersionSegment(seg) ==
    /\ Len(seg) >= 2
    /\ seg[1] = "v"
    /\ \A i \in 2..Len(seg) : IsDigitCh(seg[i])

\* regexp ^\{[^}]+\}$
IsBracedSegment(seg) ==
    /\ Len(seg) >= 3
    /\ seg[1] = "{"
    /\ seg[Len(seg)] = "}"
    /\ \A i \in 2..(Len(seg) - 1) : seg[i] # "}"

\* a pattern that takes the letters of both cases
IsKebabSegmentOfAnyCase(seg) ==
    /\ seg # << >>
    /\ \A i \in DOMAIN seg :
          IsLowerCh(seg[i]) \/ IsUpperCh(seg[i]) \/ IsDigitCh(seg[i]) \/ seg[i] = "-"

\* regexp ^[a-z0-9]+(-[a-z0-9]+)*$
IsKebabSegment(seg) ==
    /\ seg # << >>
    /\ \A i \in DOMAIN seg : IsLowerCh(seg[i]) \/ IsDigitCh(seg[i]) \/ seg[i] = "-"
    /\ seg[1] # "-"
    /\ seg[Len(seg)] # "-"
    /\ \A i \in 1..(Len(seg) - 1) : ~(seg[i] = "-" /\ seg[i + 1] = "-")

validMethods == {<<"g","e","t">>, <<"p","o","s","t">>, <<"p","u","t">>, <<"p","a","t","c","h">>, <<"d","e","l","e","t","e">>, <<"h","e","a","d">>, <<"o","p","t","i","o","n","s">>}

validateHTTPMethods(path, method, operation) ==
    IF ToLower(method) \notin validMethods
    THEN <<"i","n","v","a","l","i","d"," ","H","T","T","P"," ","m","e","t","h","o","d"," ","'">> \o method
         \o <<"'",","," ","s","h","o","u","l","d"," ","b","e"," ","o","n","e"," ","o","f",":"," ","G","E","T",","," ","P","O","S","T",","," ","P","U","T",","," ","P","A","T","C","H",","," ","D","E","L","E","T","E",","," ","H","E","A","D",","," ","O","P","T","I","O","N","S">>
    ELSE Nil

singularWords ==
    << <<"a","c","c","o","u","n","t">>, <<"u","s","e","r">>, <<"m","i","s","s","i","o","n">>, <<"r","e","w","a","r","d">>, <<"p","a","r","t","n","e","r">>, <<"a","c","t","i","v","i","t","y">>, <<"c","a","r">>, <<"m","e","m","b","e","r">>,
       <<"o","r","d","e","r">>, <<"p","r","o","d","u","c","t">>, <<"s","e","r","v","i","c","e">>, <<"i","t","e","m">>, <<"c","a","t","e","g","o","r","y">>, <<"g","r","o","u","p">>, <<"r","o","l","e">>, <<"p","e","r","m","i","s","s","i","o","n">>,
       <<"r","e","s","o","u","r","c","e">>, <<"e","n","t","i","t","y">>, <<"r","e","c","o","r","d">>, <<"d","o","c","u","m","e","n","t">>, <<"f","i","l","e">>, <<"i","m","a","g","e">>, <<"v","i","d","e","o">>, <<"c","o","m","m","e","n","t">> >>

\* a pluralization that appends s to every word
makePluralAppendsS(word) == word \o <<"s">>

makePlural(word) ==
    IF HasSuffix(word, <<"y">>) THEN TrimSuffix(word, <<"y">>) \o <<"i","e","s">>
    ELSE IF HasSuffix(word, <<"s">>) \/ HasSuffix(word, <<"c","h">>) \/ HasSuffix(word, <<"s","h">>) THEN word \o <<"e","s">>
    ELSE word \o <<"s">>

\* the first word of singularWords that the segment equals, lower-cased; 0 for none
SingularIndex(segment) ==
    LET hits == {i \in DOMAIN singularWords : ToLower(segment) = singularWords[i]}
    IN  IF hits = {} THEN 0 ELSE CHOOSE i \in hits : \A j \in hits : i <= j

RECURSIVE pluralLoop(_)
pluralLoop(segments) ==
    IF segments = << >> THEN Nil
    ELSE LET segment == Head(segments)
         IN  IF HasPrefix(segment, <<"{">>) /\ HasSuffix(segment, <<"}">>) THEN pluralLoop(Tail(segments))
             ELSE IF IsVersionSegment(segment) THEN pluralLoop(Tail(segments))
             ELSE IF SingularIndex(segment) # 0
                  THEN <<"c","o","l","l","e","c","t","i","o","n"," ","n","a","m","e"," ","'">> \o segment \o <<"'"," ","s","h","o","u","l","d"," ","b","e"," ","p","l","u","r","a","l",":"," ","'">>
                       \o makePlural(singularWords[SingularIndex(segment)]) \o <<"'">>
             ELSE pluralLoop(Tail(segments))

validatePluralCollections(path, method, operation) == pluralLoop(PathSegments(path))

RECURSIVE kebabCaseLoop(_)
kebabCaseLoop(segments) ==
    IF segments = << >> THEN Nil
    ELSE LET segment == Head(segments)
         IN  IF ~(IsKebabSegment(segment) \/ IsVersionSegment(segment) \/ IsBracedSegment(segment))
             THEN <<"p","a","t","h"," ","s","e","g","m","e","n","t"," ","'">> \o segment \o <<"'"," ","s","h","o","u","l","d"," ","u","s","e"," ","k","e","b","a","b","-","c","a","s","e"," ","(","l","o","w","e","r","c","a","s","e"," ","w","i","t","h"," ","d","a","s","h","e","s",")">>
             ELSE kebabCaseLoop(Tail(segments))

validateKebabCase(path, method, operation) == kebabCaseLoop(PathSegments(path))

validateNoTrailingSlash(path, method, operation) ==
    IF Len(path) > 1 /\ HasSuffix(path, Slash) THEN <<"p","a","t","h"," ","s","h","o","u","l","d"," ","n","o","t"," ","h","a","v","e"," ","t","r","a","i","l","i","n","g"," ","s","l","a","s","h">>
    ELSE Nil

validateOperationId(path, method, operation) ==
    IF ~operation.operationId THEN <<"o","p","e","r","a","t","i","o","n"," ","s","h","o","u","l","d"," ","h","a","v","e"," ","o","p","e","r","a","t","i","o","n","I","d">> ELSE Nil

validateOperationSummary(path, method, operation) ==
    IF ~operation.summary THEN <<"o","p","e","r","a","t","i","o","n"," ","s","h","o","u","l","d"," ","h","a","v","e"," ","s","u","m","m","a","r","y">> ELSE Nil

validateGetResponse200(path, method, operation) ==
    IF ToLower(method) # <<"g","e","t">> THEN Nil
    ELSE IF operation.responses = "missing" THEN <<"G","E","T"," ","o","p","e","r","a","t","i","o","n"," ","s","h","o","u","l","d"," ","h","a","v","e"," ","r","e","s","p","o","n","s","e","s"," ","d","e","f","i","n","e","d">>
    ELSE IF operation.responses # "with200" THEN <<"G","E","T"," ","o","p","e","r","a","t","i","o","n"," ","s","h","o","u","l","d"," ","h","a","v","e"," ","2","0","0"," ","r","e","s","p","o","n","s","e">>
    ELSE Nil

\* a test that knows the allow-list only
isValidParamNameOfListOnly(name) ==
    name \in {<<"i","d">>, <<"u","s","e","r","I","d">>, <<"a","c","c","o","u","n","t","I","d">>, <<"m","i","s","s","i","o","n","I","d">>, <<"p","a","r","t","n","e","r","I","d">>,
              <<"c","a","r","I","d">>, <<"a","c","t","i","v","i","t","y","I","d">>, <<"r","e","w","a","r","d","I","d">>, <<"m","e","m","b","e","r","I","d">>}

isValidParamName(name) ==
    \/ name \in {<<"i","d">>, <<"u","s","e","r","I","d">>, <<"a","c","c","o","u","n","t","I","d">>, <<"m","i","s","s","i","o","n","I","d">>, <<"p","a","r","t","n","e","r","I","d">>,
                 <<"c","a","r","I","d">>, <<"a","c","t","i","v","i","t","y","I","d">>, <<"r","e","w","a","r","d","I","d">>, <<"m","e","m","b","e","r","I","d">>}
    \/ HasSuffix(name, <<"I","d">>) /\ Len(name) > 2

\* regexp \{([^}]+)\} with FindAllStringSubmatch: the captures of the successive
\* leftmost matches in s, scanning from the 1-based position i
RECURSIVE braceCaptures(_, _)
braceCaptures(s, i) ==
    IF i > Len(s) THEN << >>
    ELSE IF s[i] = "{" /\ i + 1 <= Len(s) /\ s[i + 1] # "}"
            /\ \E j \in (i + 2)..Len(s) : s[j] = "}"
    THEN LET close == CHOOSE j \in (i + 2)..Len(s) :
                          s[j] = "}" /\ \A k \in (i + 2)..(j - 1) : s[k] # "}"
         IN  <<SubSeq(s, i + 1, close - 1)>> \o braceCaptures(s, close + 1)
    ELSE braceCaptures(s, i + 1)

RECURSIVE paramLoop(_)
paramLoop(names) ==
    IF names = << >> THEN Nil
    ELSE IF ~isValidParamName(Head(names))
         THEN <<"p","a","r","a","m","e","t","e","r"," ","'","{">> \o Head(names)
              \o <<"}","'"," ","s","h","o","u","l","d"," ","f","o","l","l","o","w"," ","n","a","m","i","n","g"," ","c","o","n","v","e","n","t","i","o","n"," ","(","c","o","n","s","i","d","e","r"," ","u","s","i","n","g"," ","{","i","d","}"," ","f","o","r"," ","r","e","s","o","u","r","c","e"," ","i","d","e","n","t","i","f","i","e","r","s",")">>
    ELSE paramLoop(Tail(names))

validateResourceIdParam(path, method, operation) == paramLoop(braceCaptures(path, 1))

\* ValidationPresets: from the preset's key to its rules' names, in declared order
ValidationPresets ==
    (<<"g","o","o","g","l","e">> :> << "http-methods-rest", "collection-names-plural", "path-case-kebab",
                    "no-trailing-slash", "operation-id-present", "operation-summary-present",
                    "response-200-present", "resource-id-param" >>)
    @@ (<<"r","e","s","t","f","u","l">> :> << "http-methods-rest", "operation-id-present", "collection-names-plural",
                        "no-trailing-slash" >>)

\* rule.Validate(path, method, operation) of the rule named so
Validate(rule, path, method, operation) ==
    CASE rule = "http-methods-rest" -> validateHTTPMethods(path, method, operation)
      [] rule = "collection-names-plural" -> validatePluralCollections(path, method, operation)
      [] rule = "path-case-kebab" -> validateKebabCase(path, method, operation)
      [] rule = "no-trailing-slash" -> validateNoTrailingSlash(path, method, operation)
      [] rule = "operation-id-present" -> validateOperationId(path, method, operation)
      [] rule = "operation-summary-present" -> validateOperationSummary(path, method, operation)
      [] rule = "response-200-present" -> validateGetResponse200(path, method, operation)
      [] rule = "resource-id-param" -> validateResourceIdParam(path, method, operation)

\* a lookup that finds every name: an unknown one gives the zero preset, without rules
lookupPresetFindsAny(name) ==
    [exists |-> TRUE,
     rules |-> IF name \in DOMAIN ValidationPresets THEN ValidationPresets[name] ELSE << >>]

\* preset, exists := ValidationPresets[name]: a Go map gives the zero value, a preset
\* without rules, for a key it does not hold
lookupPreset(name) ==
    IF name \in DOMAIN ValidationPresets
    THEN [exists |-> TRUE, rules |-> ValidationPresets[name]]
    ELSE [exists |-> FALSE, rules |-> << >>]

\* the ValidationResult that validatePaths appends for a rule's error
ValidationResult(apiPath, method, rule, message) ==
    [Path |-> apiPath, Method |-> ToUpper(method), Rule |-> rule,
     Message |-> message, Severity |-> "error"]

\* hasErrors overwritten by the outcome of the last evaluation
hasErrorsOfLastOnly(hasErrors, err) == err # Nil

\* hasErrors after a rule evaluation that gave err
hasErrorsAfter(hasErrors, err) == hasErrors \/ err # Nil

\* an engine that never stops early
neverStops(stopOnError) == "continue"

\* what validatePaths does after recording a violation
afterViolation(stopOnError) == IF stopOnError THEN "return" ELSE "continue"

StoppedEarly == <<"v","a","l","i","d","a","t","i","o","n"," ","f","a","i","l","e","d"," ","o","n"," ","f","i","r","s","t"," ","e","r","r","o","r">>

CompletedWithViolations == <<"v","a","l","i","d","a","t","i","o","n"," ","f","a","i","l","e","d">>

\* ioutil.ReadFile and yaml.Unmarshal in validatePaths: [err, parsed]
\* a reading that takes a fragment it cannot read or parse for one without keys
PathSpecOfAnyContent(pathFile, c) ==
    IF c.kind = "ok" THEN [err |-> Nil, parsed |-> c.parsed] ELSE [err |-> Nil, parsed |-> NoKeys]

PathSpecOf(pathFile, c) ==
    IF c.kind = "unreadable"
    THEN [err |-> <<"f","a","i","l","e","d"," ","t","o"," ","r","e","a","d"," ">> \o pathFile \o <<":"," ">> \o ReadError(pathFile), parsed |-> NoKeys]
    ELSE IF c.kind = "malformed"
    THEN [err |-> <<"f","a","i","l","e","d"," ","t","o"," ","p","a","r","s","e"," ">> \o pathFile \o <<":"," ","y","a","m","l",":"," ","d","i","d"," ","n","o","t"," ","f","i","n","d"," ","e","x","p","e","c","t","e","d"," ","n","o","d","e"," ","c","o","n","t","e","n","t">>,
          parsed |-> NoKeys]
    ELSE [err |-> Nil, parsed |-> c.parsed]

readPathSpec(pathFile) == PathSpecOf(pathFile, Content(pathFile))

\* run: whether validation is run at all
validationRequested(c) == ~c.SkipValidation /\ c.ValidatePreset # << >>

\* a run that composes whatever validation returned
composesRegardless(err) == "compose"

\* run: where it goes when validatePaths has returned err
afterValidation(err) == IF err # Nil THEN "exit" ELSE "compose"

----------------------------------------------------------------------------
(* Values of the variables a specification does not use *)

NoCfg == [none |-> TRUE]

NoVal == [none |-> TRUE]

Unused ==
    /\ cfg = NoCfg
    /\ fs = {}
    /\ walk = << >>
    /\ val = NoVal
    /\ results = << >>
    /\ evalLog = << >>
    /\ rootDoc = Absent
    /\ events = << >>
    /\ written = << >>

----------------------------------------------------------------------------
(* Path-Key Deriver: buildPathKey applied to one fragment under the paths root *)

\* all strings over alphabet of length at most n
RECURSIVE StringsUpTo(_, _)
StringsUpTo(alphabet, n) ==
    IF n = 0 THEN {<< >>}
    ELSE LET shorter == StringsUpTo(alphabet, n - 1)
         IN  shorter \cup {s \o <<c>> : s \in shorter, c \in alphabet}

NameAlphabet == {"a", "B", "1", "-", "_", " "}

\* the extensions listYAMLFiles lets through (it compares the lower-cased name)
FragmentExts == {<<".","y","a","m","l">>, <<".","Y","A","M","L">>, <<".","Y","a","m","l">>}

FragmentDirs == {<< >>, <<<<"v","1">>>>, <<<<"v","1">>, <<"f","o","o">>>>, <<<<"v","2">>, <<"f","o","o">>, <<"b","a","r","-","b","a","z">>>>}

PathKeyArgs ==
    [dirs : FragmentDirs,
     base : StringsUpTo(NameAlphabet, MaxNameLen) \cup {<<"l","i","s","t","-","i","t","e","m","s">>, <<"h","e","a","l","t","h","-","c","h","e","c","k">>},
     ext : FragmentExts]

\* the absolute path of the fragment described by a
FragmentPath(a) == Join(<<PathsDir>> \o a.dirs \o <<a.base \o a.ext>>, Slash)

InitPathKey ==
    /\ arg \in PathKeyArgs
    /\ ret = NotReturned
    /\ pc = "call"
    /\ Unused

DerivePathKey ==
    /\ pc = "call"
    /\ ret' = buildPathKey(PathsDir, FragmentPath(arg))
    /\ pc' = "returned"
    /\ UNCHANGED <<cfg, fs, walk, val, results, evalLog, rootDoc, events, written, arg>>

NextPathKey == DerivePathKey

SpecPathKey == InitPathKey /\ [][NextPathKey]_vars

\* The camel-cased form of s as the claim words it: the separators are removed and a
\* character is upper-cased when the character before it was a separator.
CamelCased(s) ==
    LET keep == {i \in 1..Len(s) : s[i] \notin {"-", "_", " "}}
        nth(k) == CHOOSE i \in keep : Cardinality({j \in keep : j < i}) = k - 1
    IN  [k \in 1..Cardinality(keep) |->
            IF nth(k) > 1 /\ s[nth(k) - 1] \in {"-", "_", " "}
            THEN ToUpperCh(s[nth(k)]) ELSE s[nth(k)]]

RECURSIVE SlashTerminated(_)
SlashTerminated(dirs) ==
    IF dirs = << >> THEN << >> ELSE Head(dirs) \o Slash \o SlashTerminated(Tail(dirs))

\* C6: for every fragment under the paths root, buildPathKey returns "/" followed by the
\* directory segments unchanged, each followed by "/", and then the camel-cased file
\* name with its extension stripped.
C6_PathKeyStripsExtension ==
    pc = "returned" =>
        ret = Slash \o SlashTerminated(arg.dirs) \o CamelCased(arg.base)

\* The same statement for the fragments whose extension is exactly ".yaml", the only
\* spelling TrimSuffix removes.
PathKeyOfLowerCaseExtension ==
    (pc = "returned" /\ arg.ext = YamlExt) =>
        ret = Slash \o SlashTerminated(arg.dirs) \o CamelCased(arg.base)

PathKeyExamples ==
    /\ buildPathKey(PathsDir, <<"/","a","p","i","/","p","a","t","h","s","/","v","1","/","f","o","o","/","l","i","s","t","-","i","t","e","m","s",".","y","a","m","l">>) = <<"/","v","1","/","f","o","o","/","l","i","s","t","I","t","e","m","s">>
    /\ buildPathKey(PathsDir, <<"/","a","p","i","/","p","a","t","h","s","/","v","1","/","h","e","a","l","t","h","-","c","h","e","c","k",".","y","a","m","l">>) = <<"/","v","1","/","h","e","a","l","t","h","C","h","e","c","k">>
    /\ buildPathKey(PathsDir, <<"/","a","p","i","/","p","a","t","h","s","/","h","e","a","l","t","h","-","c","h","e","c","k",".","y","a","m","l">>) = <<"/","h","e","a","l","t","h","C","h","e","c","k">>

----------------------------------------------------------------------------
(* Drawing a file system *)

\* the directories above p, "/" included
RECURSIVE DirsAbove(_)
DirsAbove(p) == IF p = Slash THEN {} ELSE {Dir(p)} \cup DirsAbove(Dir(p))

\* the entries chosen, with every directory above them
WithDirs(leaves) ==
    leaves \cup {[path |-> d, type |-> "dir"] : d \in UNION {DirsAbove(e.path) : e \in leaves}}

\* no path is two entries, and nothing lies below a file or a symlink
WellFormed(entries) ==
    \A e \in entries : \A f \in entries :
        /\ e.path = f.path => e = f
        /\ IsBelow(e.path, f.path) => e.type = "dir"

\* the sequences that hold every element of the set S once
RECURSIVE Perms(_)
Perms(S) ==
    IF S = {} THEN {<< >>}
    ELSE UNION {{<<x>> \o q : q \in Perms(S \ {x})} : x \in S}

FilePaths(entries) == {e.path : e \in {v \in entries : v.type # "dir"}}

NumFiles(entries) == Cardinality(FilePaths(entries))

\* the file systems made of at most MaxFiles of the candidate files
FileSystems(candidates) ==
    {WithDirs(leaves) :
        leaves \in {l \in SUBSET candidates : NumFiles(l) <= MaxFiles /\ WellFormed(WithDirs(l))}}

F(p) == [path |-> p, type |-> "file"]

D(p) == [path |-> p, type |-> "dir"]

----------------------------------------------------------------------------
(* Fragment Store: listYAMLFiles applied to one root *)

ListRoot == PathsDir

ListCandidates ==
    { F(<<"/","a","p","i","/","p","a","t","h","s","/","a",".","y","a","m","l">>), F(<<"/","a","p","i","/","p","a","t","h","s","/","B",".","Y","A","M","L">>), F(<<"/","a","p","i","/","p","a","t","h","s","/","c",".","y","m","l">>),
      F(<<"/","a","p","i","/","p","a","t","h","s","/",".","h","i","d","d","e","n",".","y","a","m","l">>), F(<<"/","a","p","i","/","p","a","t","h","s","/","n","o","t","e","s",".","t","x","t">>),
      F(<<"/","a","p","i","/","p","a","t","h","s","/","v","1","/","d",".","y","a","m","l">>), F(<<"/","a","p","i","/","p","a","t","h","s","/",".","g","i","t","/","e",".","y","a","m","l">>),
      F(<<"/","a","p","i","/","p","a","t","h","s","/","v","1","/",".","c","a","c","h","e","/","f",".","y","a","m","l">>),
      [path |-> <<"/","a","p","i","/","p","a","t","h","s","/","l","i","n","k",".","y","a","m","l">>, type |-> "symlink"],
      D(<<"/","a","p","i","/","p","a","t","h","s","/","d","i","r",".","y","a","m","l">>), D(<<"/","a","p","i","/","p","a","t","h","s">>), F(<<"/","a","p","i","/","p","a","t","h","s">>) }

InitList ==
    /\ fs \in FileSystems(ListCandidates)
    /\ walk \in Perms(FilePaths(fs))
    /\ arg = ListRoot
    /\ ret = NotReturned
    /\ pc = "call"
    /\ cfg = NoCfg /\ val = NoVal /\ results = << >> /\ evalLog = << >>
    /\ rootDoc = Absent /\ events = << >> /\ written = << >>

ListFragments ==
    /\ pc = "call"
    /\ ret' = listYAMLFiles(arg).files
    /\ pc' = "returned"
    /\ UNCHANGED <<cfg, fs, walk, val, results, evalLog, rootDoc, events, written, arg>>

NextList == ListFragments

SpecList == InitList /\ [][NextList]_vars

Range(s) == {s[i] : i \in DOMAIN s}

NoDuplicates(s) == Cardinality(Range(s)) = Len(s)

\* some name on the way from root down to p, p's own name included, starts with "."
Dotted(root, p) ==
    LET names == SplitCh(Rel(root, p), "/")
    IN  \E i \in DOMAIN names : HasPrefix(names[i], <<".">>)

\* C7: listYAMLFiles returns exactly the regular files below the root whose name ends
\* in .yaml or .yml, compared case-insensitively, and that neither start with "." nor
\* lie in a directory below the root whose name starts with ".".
C7_ListsExactlyUndottedYamlAndYml ==
    pc = "returned" =>
        /\ NoDuplicates(ret)
        /\ Range(ret) =
             {e.path : e \in {v \in fs :
                 /\ v.type = "file"
                 /\ IsBelow(arg, v.path)
                 /\ \/ HasSuffix(ToLower(Base(v.path)), <<".","y","a","m","l">>)
                    \/ HasSuffix(ToLower(Base(v.path)), <<".","y","m","l">>)
                 /\ ~Dotted(arg, v.path)}}

\* What the code returns: the regular files whose lower-cased name ends in .yaml and
\* that lie in no dotted directory below the root; a dotted file is returned.
ListsYamlOutsideDottedDirs ==
    pc = "returned" =>
        /\ NoDuplicates(ret)
        /\ Range(ret) =
             {e.path : e \in {v \in fs :
                 /\ v.type = "file"
                 /\ IsBelow(arg, v.path)
                 /\ HasSuffix(ToLower(Base(v.path)), <<".","y","a","m","l">>)
                 /\ Dir(v.path) = arg \/ ~Dotted(arg, Dir(v.path))}}

----------------------------------------------------------------------------
(* Root Composer: repeated runs over one fragment set, the traversal order changing *)

RootFile == <<"r","o","o","t",".","y","a","m","l">>

\* the Config that buildConfig gives for --input /api, the root file in the input
\* directory (the default), with the flags given
Config(join, preset, skip, stop, outputs) ==
    [RootPath |-> JoinPath(InputDir, RootFile),
     PathsDir |-> PathsDir,
     SchemasDir |-> SchemasDir,
     ParamsDir |-> ParamsDir,
     Join |-> join,
     ValidatePreset |-> preset,
     SkipValidation |-> skip,
     ValidateStopOnError |-> stop,
     OutputTS |-> outputs.ts,
     OutputGo |-> outputs.go,
     BundleOut |-> outputs.bundle,
     Redocly |-> outputs.docs]

NoOutputs == [ts |-> << >>, go |-> << >>, bundle |-> << >>, docs |-> << >>]

ComposeCandidates ==
    { F(<<"/","a","p","i","/","p","a","t","h","s","/","v","1","/","u","s","e","r","s",".","y","a","m","l">>), F(<<"/","a","p","i","/","p","a","t","h","s","/","v","1","/","f","o","o","/","l","i","s","t","-","i","t","e","m","s",".","y","a","m","l">>),
      F(<<"/","a","p","i","/","p","a","t","h","s","/","v","1","-","b","e","t","a","/","o","r","d","e","r","s",".","y","a","m","l">>), F(<<"/","a","p","i","/","p","a","t","h","s","/","v","1","/","l","o","c","k","e","d",".","y","a","m","l">>),
      F(<<"/","a","p","i","/","c","o","m","p","o","n","e","n","t","s","/","s","c","h","e","m","a","s","/","f","o","o","B","a","r",".","y","a","m","l">>), F(<<"/","a","p","i","/","c","o","m","p","o","n","e","n","t","s","/","s","c","h","e","m","a","s","/","f","o","o","b","a","r",".","y","a","m","l">>),
      F(<<"/","a","p","i","/","c","o","m","p","o","n","e","n","t","s","/","s","c","h","e","m","a","s","/","u","s","e","r","-","a","c","c","o","u","n","t",".","y","a","m","l">>),
      F(<<"/","a","p","i","/","c","o","m","p","o","n","e","n","t","s","/","p","a","r","a","m","e","t","e","r","s","/","u","s","e","r","-","i","d",".","y","a","m","l">>),
      F(<<"/","a","p","i","/","c","o","m","p","o","n","e","n","t","s","/","p","a","r","a","m","e","t","e","r","s","/","n","o","t","e","s",".","t","x","t">>),
      D(<<"/","a","p","i","/","c","o","m","p","o","n","e","n","t","s","/","p","a","r","a","m","e","t","e","r","s">>), F(<<"/","a","p","i","/","c","o","m","p","o","n","e","n","t","s","/","p","a","r","a","m","e","t","e","r","s">>) }

InitCompose ==
    /\ cfg \in {Config(j, << >>, FALSE, FALSE, NoOutputs) : j \in BOOLEAN}
    /\ fs \in FileSystems(ComposeCandidates)
    /\ walk \in Perms(FilePaths(fs))
    /\ rootDoc = Absent
    /\ written = << >>
    /\ ret = NotReturned
    /\ pc = "idle"
    /\ arg = "none" /\ val = NoVal /\ results = << >> /\ evalLog = << >> /\ events = << >>

\* a root file that is opened for appending: what a call prints follows what it held
RootAfterAppending(r) ==
    IF r.doc = Unchanged THEN rootDoc
    ELSE (IF rootDoc = Absent THEN << >> ELSE rootDoc) \o r.doc

\* the file cfg.RootPath after a composer call that returned r
RootAfter(r) == IF r.doc = Unchanged THEN rootDoc ELSE r.doc

ComposeReference ==
    /\ pc = "idle"
    /\ ~cfg.Join
    /\ Len(written) < MaxRuns
    /\ \E r \in {writeRootYAML(cfg)} :
          /\ ret' = r.err
          /\ rootDoc' = RootAfter(r)
          /\ written' = Append(written, RootAfter(r))
    /\ UNCHANGED <<cfg, fs, walk, pc, val, results, evalLog, events, arg>>

ComposeJoined ==
    /\ pc = "idle"
    /\ cfg.Join
    /\ Len(written) < MaxRuns
    /\ \E r \in {writeRootJoinedYAML(cfg)} :
          /\ ret' = r.err
          /\ rootDoc' = RootAfter(r)
          /\ written' = Append(written, RootAfter(r))
    /\ UNCHANGED <<cfg, fs, walk, pc, val, results, evalLog, events, arg>>

\* between two runs the directory walk comes to return the same files in another order
Reorder ==
    /\ pc = "idle"
    /\ Len(written) >= 1
    /\ Len(written) < MaxRuns
    /\ walk' \in Perms(FilePaths(fs)) \ {walk}
    /\ UNCHANGED <<cfg, fs, pc, val, results, evalLog, rootDoc, events, written, arg, ret>>

NextCompose == ComposeReference \/ ComposeJoined \/ Reorder

SpecCompose == InitCompose /\ [][NextCompose]_vars

ReferenceModeSameDocument ==
    ~cfg.Join => \A i \in DOMAIN written : \A j \in DOMAIN written : written[i] = written[j]

\* the one sequence that holds the elements of the sequence s in ascending order
Ascending(s) ==
    CHOOSE q \in Perms(Range(s)) : \A i \in DOMAIN q : \A j \in DOMAIN q : i < j => StrLess(q[i], q[j])

\* the root document of the mode of cfg whose groups are in ascending order of the
\* fragments' file paths, paths first, then schemas, then parameters
OrderedDocument ==
    IF cfg.Join
    THEN JoinedWithMaps(cfg, Ascending(listYAMLFiles(cfg.PathsDir).files),
                        Ascending(listYAMLFiles(cfg.SchemasDir).files),
                        Ascending(listYAMLFiles(cfg.ParamsDir).files),
                        buildNameMap(cfg.SchemasDir), buildNameMap(cfg.ParamsDir)).doc
    ELSE ReferenceDocument(cfg, Ascending(listYAMLFiles(cfg.PathsDir).files),
                           Ascending(listYAMLFiles(cfg.SchemasDir).files),
                           Ascending(listYAMLFiles(cfg.ParamsDir).files))

\* C8: in both composition modes a run that succeeds writes the path entries first,
\* then the schema entries, then the parameter entries, each group in ascending
\* lexicographic order of the fragments' absolute file paths, whatever order the
\* directory walk of that run returned them in.
C8_GroupsInOrderEachAscending ==
    [][(ComposeReference \/ ComposeJoined) /\ ret' = Nil => rootDoc' = OrderedDocument]_vars

\* a joined run has just succeeded on three schemas that the walk returned in an order
\* that is not ascending, and the document holds them in ascending order
C8_WalkOrderNotAscending ==
    /\ cfg.Join
    /\ Len(written) = MaxRuns
    /\ ret = Nil
    /\ Len(listYAMLFiles(cfg.SchemasDir).files) = 3
    /\ listYAMLFiles(cfg.SchemasDir).files # Ascending(listYAMLFiles(cfg.SchemasDir).files)
    /\ rootDoc = OrderedDocument

\* dir is missing, is no directory, or has no regular file below it named *.yaml
NoFragmentsIn(dir) ==
    \/ ~ \E e \in fs : e.path = dir
    \/ \E e \in fs : e.path = dir /\ e.type # "dir"
    \/ ~ \E e \in fs : e.type = "file" /\ IsBelow(dir, e.path) /\ HasSuffix(ToLower(e.path), YamlExt)

\* the 1-based index of the first line of doc that is the line given, 0 for none
LineIndex(doc, line) ==
    LET hits == {i \in DOMAIN doc : doc[i] = line}
    IN  IF hits = {} THEN 0 ELSE CHOOSE i \in hits : \A j \in hits : i <= j

\* in doc the section header is followed at once by the line next (by the end of
\* the document when next is "end")
SectionEmpty(doc, header, next) ==
    LET i == LineIndex(doc, header)
    IN  /\ i # 0
        /\ IF next = "end" THEN i = Len(doc) ELSE i < Len(doc) /\ doc[i + 1] = next

\* every fragment the composer would read can be read
AllReadable ==
    \A e \in fs : e.type = "file" => readText(e.path).err = Nil

\* after a composer run: the section of dir is empty in the document written
EmptySectionWritten(dir, header, next) ==
    /\ listYAMLFiles(dir) = [files |-> << >>, err |-> Nil]
    /\ (~cfg.Join \/ AllReadable) => /\ ret = Nil
                                     /\ rootDoc # Absent
                                     /\ SectionEmpty(rootDoc, header, next)

\* C9: when the components/parameters directory is missing, is no directory or holds
\* no fragment file, listYAMLFiles returns an empty list and no error, and composition
\* in either mode succeeds (no fragment of another directory failing to be read) and
\* writes a root document whose parameters section has no entry; and the same for
\* the schemas and the paths directory.
C9_MissingOrEmptyDirIsEmptySection ==
    Len(written) >= 1 =>
        /\ NoFragmentsIn(cfg.ParamsDir) => EmptySectionWritten(cfg.ParamsDir, <<" "," ","p","a","r","a","m","e","t","e","r","s",":">>, "end")
        /\ NoFragmentsIn(cfg.SchemasDir) => EmptySectionWritten(cfg.SchemasDir, <<" "," ","s","c","h","e","m","a","s",":">>, <<" "," ","p","a","r","a","m","e","t","e","r","s",":">>)
        /\ NoFragmentsIn(cfg.PathsDir) => EmptySectionWritten(cfg.PathsDir, <<"p","a","t","h","s",":">>, <<"c","o","m","p","o","n","e","n","t","s",":">>)

\* a run has succeeded with the parameters path being a regular file and with
\* fragments in the paths directory
C9_ParametersIsNoDirectory ==
    /\ Len(written) >= 1
    /\ F(cfg.ParamsDir) \in fs
    /\ listYAMLFiles(cfg.PathsDir).files # << >>
    /\ ret = Nil
    /\ SectionEmpty(rootDoc, <<" "," ","p","a","r","a","m","e","t","e","r","s",":">>, "end")

----------------------------------------------------------------------------
(* The whole run: validation, composition, generators, bundle, documentation *)

AllOutputs ==
    [ts |-> <<"/","o","u","t","/","a","p","i",".","t","s">>, go |-> <<"/","o","u","t","/","a","p","i",".","g","o">>, bundle |-> <<"/","o","u","t","/","o","p","e","n","a","p","i",".","y","a","m","l">>, docs |-> <<"/","o","u","t","/","i","n","d","e","x",".","h","t","m","l">>]

DocsOnly == [ts |-> << >>, go |-> << >>, bundle |-> << >>, docs |-> <<"/","o","u","t","/","i","n","d","e","x",".","h","t","m","l">>]

\* the values of --validate: none, the two presets, and a name that is no preset
PresetNames == {<< >>, <<"g","o","o","g","l","e">>, <<"r","e","s","t","f","u","l">>, <<"s","t","r","i","c","t">>}

RunCandidates ==
    { F(<<"/","a","p","i","/","p","a","t","h","s","/","v","1","/","u","s","e","r","s",".","y","a","m","l">>), F(<<"/","a","p","i","/","p","a","t","h","s","/","v","1","/","a","c","c","o","u","n","t","/","{","a","c","c","o","u","n","t","I","d","}",".","y","a","m","l">>),
      F(<<"/","a","p","i","/","p","a","t","h","s","/","v","1","/","f","o","o","/","l","i","s","t","-","i","t","e","m","s",".","y","a","m","l">>), F(<<"/","a","p","i","/","p","a","t","h","s","/","v","1","/","o","r","d","e","r","s",".","y","a","m","l">>),
      F(<<"/","a","p","i","/","p","a","t","h","s","/","v","1","-","b","e","t","a","/","o","r","d","e","r","s",".","y","a","m","l">>), F(<<"/","a","p","i","/","p","a","t","h","s","/","v","1","/","b","r","o","k","e","n",".","y","a","m","l">>),
      F(<<"/","a","p","i","/","p","a","t","h","s","/","v","1","/","l","o","c","k","e","d",".","y","a","m","l">>), F(<<"/","a","p","i","/","p","a","t","h","s","/","v","1","/","u","s","e","r","s","/","{","u","s","e","r","-","i","d","}",".","y","a","m","l">>),
      F(<<"/","a","p","i","/","c","o","m","p","o","n","e","n","t","s","/","s","c","h","e","m","a","s","/","f","o","o","b","a","r",".","y","a","m","l">>) }

\* the locals of validatePaths before it is called
ValInit ==
    [phase |-> "none", files |-> << >>, apiPath |-> << >>, parsed |-> NoKeys, keys |-> {},
     method |-> << >>, rule |-> 0, hasErrors |-> FALSE, err |-> Pending]

Event(kind, path) == [kind |-> kind, path |-> path]

Init ==
    /\ cfg \in {Config(j, preset, skip, stop, outputs) :
                   j \in BOOLEAN, preset \in PresetNames, skip \in BOOLEAN, stop \in BOOLEAN,
                   outputs \in {NoOutputs, AllOutputs, DocsOnly}}
    /\ fs \in {WithDirs(leaves) : leaves \in {l \in SUBSET RunCandidates : Cardinality(l) <= MaxFragments}}
    /\ walk \in Perms(FilePaths(fs))
    /\ pc = "run"
    /\ val = ValInit
    /\ results = << >>
    /\ evalLog = << >>
    /\ rootDoc = Absent
    /\ events = << >>
    /\ written = << >>
    /\ arg = "none"
    /\ ret = NotReturned

\* run returns err: main prints it and exits with code 1
Exit(err) == pc' = "exit" /\ ret' = err

\* validatePaths returns err to run
Returns(err) == pc' = "validated" /\ val' = [val EXCEPT !.phase = "returned", !.err = err]

\* run, validation not requested: on to composition
SkipValidation ==
    /\ pc = "run"
    /\ ~validationRequested(cfg)
    /\ pc' = "compose"
    /\ UNCHANGED <<cfg, fs, walk, val, results, evalLog, rootDoc, events, written, arg, ret>>

\* validatePaths, the preset is not in ValidationPresets
UnknownPreset ==
    /\ pc = "run"
    /\ validationRequested(cfg)
    /\ ~lookupPreset(cfg.ValidatePreset).exists
    /\ Returns(<<"u","n","k","n","o","w","n"," ","v","a","l","i","d","a","t","i","o","n"," ","p","r","e","s","e","t",":"," ">> \o cfg.ValidatePreset)
    /\ UNCHANGED <<cfg, fs, walk, results, evalLog, rootDoc, events, written, arg, ret>>

\* validatePaths, the preset is known: the banner is printed and the path fragments listed
StartValidation ==
    /\ pc = "run"
    /\ validationRequested(cfg)
    /\ lookupPreset(cfg.ValidatePreset).exists
    /\ events' = events \o <<Event("running", cfg.ValidatePreset), Event("list", cfg.PathsDir)>>
    /\ \E paths \in {listYAMLFiles(cfg.PathsDir)} :
          IF paths.err # Nil
          THEN Returns(paths.err)
          ELSE /\ val' = [val EXCEPT !.phase = "files", !.files = paths.files]
               /\ pc' = "validate"
    /\ UNCHANGED <<cfg, fs, walk, results, evalLog, rootDoc, written, arg, ret>>

\* validatePaths, the head of the loop over the path fragments: the next one is read and parsed
NextFragment ==
    /\ pc = "validate"
    /\ val.phase = "files"
    /\ val.files # << >>
    /\ \E apiPath \in {buildPathKey(cfg.PathsDir, Head(val.files))}, spec \in {readPathSpec(Head(val.files))} :
          IF apiPath = << >>
          THEN /\ val' = [val EXCEPT !.files = Tail(val.files)]
               /\ UNCHANGED <<pc, events>>
          ELSE /\ events' = Append(events, Event("read", Head(val.files)))
               /\ IF spec.err # Nil
                  THEN Returns(spec.err)
                  ELSE /\ val' = [val EXCEPT !.phase = "methods", !.files = Tail(val.files),
                                             !.apiPath = apiPath, !.parsed = spec.parsed,
                                             !.keys = DOMAIN spec.parsed]
                       /\ pc' = pc
    /\ UNCHANGED <<cfg, fs, walk, results, evalLog, rootDoc, written, arg, ret>>

\* validatePaths, the head of the loop over the keys of the fragment: a Go map hands
\* its keys out in any order
NextMethod ==
    /\ pc = "validate"
    /\ val.phase = "methods"
    /\ \E method \in val.keys :
          val' = IF val.parsed[method] = Scalar
                 THEN [val EXCEPT !.keys = val.keys \ {method}]
                 ELSE [val EXCEPT !.keys = val.keys \ {method}, !.phase = "rules",
                                  !.method = method, !.rule = 1]
    /\ UNCHANGED <<cfg, fs, walk, pc, results, evalLog, rootDoc, events, written, arg, ret>>

\* the keys of the fragment are exhausted
EndFragment ==
    /\ pc = "validate"
    /\ val.phase = "methods"
    /\ val.keys = {}
    /\ val' = [val EXCEPT !.phase = "files"]
    /\ UNCHANGED <<cfg, fs, walk, pc, results, evalLog, rootDoc, events, written, arg, ret>>

\* validatePaths, one turn of the loop over the rules of the preset
EvalRule ==
    /\ pc = "validate"
    /\ val.phase = "rules"
    /\ val.rule <= Len(lookupPreset(cfg.ValidatePreset).rules)
    /\ \E rule \in {lookupPreset(cfg.ValidatePreset).rules[val.rule]} :
       \E err \in {Validate(rule, val.apiPath, val.method, val.parsed[val.method])} :
          /\ evalLog' = Append(evalLog, [path |-> val.apiPath, method |-> val.method,
                                         rule |-> rule, rejected |-> err # Nil])
          /\ results' = IF err # Nil
                        THEN Append(results, ValidationResult(val.apiPath, val.method, rule, err))
                        ELSE results
          /\ IF err # Nil /\ afterViolation(cfg.ValidateStopOnError) = "return"
             THEN /\ pc' = "validated"
                  /\ val' = [val EXCEPT !.phase = "returned", !.err = StoppedEarly,
                                        !.hasErrors = hasErrorsAfter(val.hasErrors, err)]
             ELSE /\ pc' = pc
                  /\ val' = [val EXCEPT !.hasErrors = hasErrorsAfter(val.hasErrors, err),
                                        !.rule = val.rule + 1]
    /\ UNCHANGED <<cfg, fs, walk, rootDoc, events, written, arg, ret>>

\* the rules are exhausted for this operation
EndOperation ==
    /\ pc = "validate"
    /\ val.phase = "rules"
    /\ val.rule > Len(lookupPreset(cfg.ValidatePreset).rules)
    /\ val' = [val EXCEPT !.phase = "methods"]
    /\ UNCHANGED <<cfg, fs, walk, pc, results, evalLog, rootDoc, events, written, arg, ret>>

\* validatePaths, after the loops: the summary, and the return to run
FinishValidation ==
    /\ pc = "validate"
    /\ val.phase = "files"
    /\ val.files = << >>
    /\ events' = Append(events, Event("summary", cfg.ValidatePreset))
    /\ Returns(IF val.hasErrors THEN CompletedWithViolations ELSE Nil)
    /\ UNCHANGED <<cfg, fs, walk, results, evalLog, rootDoc, written, arg, ret>>

\* run, validatePaths has returned: its error, wrapped, ends the run
ValidationReturned ==
    /\ pc = "validated"
    /\ IF afterValidation(val.err) = "exit"
       THEN Exit(<<"v","a","l","i","d","a","t","i","o","n"," ","f","a","i","l","e","d",":"," ">> \o val.err)
       ELSE pc' = "compose" /\ ret' = ret
    /\ UNCHANGED <<cfg, fs, walk, val, results, evalLog, rootDoc, events, written, arg>>

\* run: writeRootJoinedYAML or writeRootYAML
Compose ==
    /\ pc = "compose"
    /\ \E r \in {IF cfg.Join THEN writeRootJoinedYAML(cfg) ELSE writeRootYAML(cfg)} :
          /\ events' = Append(events, Event("compose", cfg.RootPath))
          /\ rootDoc' = RootAfter(r)
          /\ IF r.err # Nil THEN Exit(r.err) ELSE pc' = "ts" /\ ret' = ret
    /\ UNCHANGED <<cfg, fs, walk, val, results, evalLog, written, arg>>

\* a tool stage started: the file it is to write and the file it reads
ToolEvent(kind, output, input) == [kind |-> kind, path |-> output, input |-> input]

\* the error of bundleWithRedocly: the bundler is missing or exits with an error
BundleError == <<"b","u","n","d","l","i","n","g"," ","f","a","i","l","e","d">>

\* the error of buildDocsHTML: no renderer is installed or it exits with an error
DocsError == <<"b","u","i","l","d","i","n","g"," ","t","h","e"," ","H","T","M","L"," ","d","o","c","s"," ","f","a","i","l","e","d">>

\* the input of buildDocsHTML: the bundle when one is configured, else the root document
docsInput(c) == IF TrimSpace(c.BundleOut) = << >> THEN c.RootPath ELSE c.BundleOut

\* a stage that runs an installed tool when its output is asked for: the tool may be
\* missing or fail, and then the run returns its error
ToolStage(at, output, input, next, err) ==
    /\ pc = at
    /\ IF output = << >>
       THEN pc' = next /\ UNCHANGED <<events, ret>>
       ELSE /\ events' = Append(events, ToolEvent(at, output, input))
            /\ \E ok \in BOOLEAN :
                  IF ok THEN pc' = next /\ ret' = ret
                  ELSE Exit(err)
    /\ UNCHANGED <<cfg, fs, walk, val, results, evalLog, rootDoc, written, arg>>

GenerateTypeScript == ToolStage("ts", cfg.OutputTS, cfg.RootPath, "go", <<"g","e","n","e","r","a","t","i","n","g"," ","T","y","p","e","S","c","r","i","p","t"," ","f","a","i","l","e","d">>)

GenerateGo == ToolStage("go", cfg.OutputGo, cfg.RootPath, "bundle", <<"g","e","n","e","r","a","t","i","n","g"," ","G","o"," ","f","a","i","l","e","d">>)

BundleWithRedocly == ToolStage("bundle", cfg.BundleOut, cfg.RootPath, "docs", BundleError)

BuildDocsHTML == ToolStage("docs", cfg.Redocly, docsInput(cfg), "return", DocsError)

\* run returns nil
Return ==
    /\ pc = "return"
    /\ pc' = "exit"
    /\ ret' = Nil
    /\ UNCHANGED <<cfg, fs, walk, val, results, evalLog, rootDoc, events, written, arg>>

Next ==
    \/ SkipValidation \/ UnknownPreset \/ StartValidation
    \/ NextFragment \/ NextMethod \/ EndFragment \/ EvalRule \/ EndOperation \/ FinishValidation
    \/ ValidationReturned
    \/ Compose \/ GenerateTypeScript \/ GenerateGo \/ BundleWithRedocly \/ BuildDocsHTML
    \/ Return

Spec == Init /\ [][Next]_vars

\* a stage of kind kind has started, or validation has done kind, in this run
Has(kind) == \E i \in DOMAIN events : events[i].kind = kind

\* a stage after validation has started
LaterStageStarted == Has("compose") \/ Has("ts") \/ Has("go") \/ Has("bundle") \/ Has("docs")

RuleNames == lookupPreset(cfg.ValidatePreset).rules

\* the operations of the path fragments: the file and a key of it that holds a mapping
Operations ==
    {o \in UNION {{[file |-> f, method |-> m] : m \in DOMAIN Content(f).parsed} :
                      f \in Range(listYAMLFiles(cfg.PathsDir).files)} :
        Content(o.file).parsed[o.method] # Scalar}

\* the pairs of an operation and a rule of the preset
Evaluations == {[op |-> o, rule |-> r] : o \in Operations, r \in Range(RuleNames)}

\* what the rule of the pair e says of its operation
Verdict(e) ==
    Validate(e.rule, buildPathKey(cfg.PathsDir, e.op.file), e.op.method,
             Content(e.op.file).parsed[e.op.method])

Rejections == {e \in Evaluations : Verdict(e) # Nil}

\* the result that stands for the rejection e
ResultOf(e) ==
    [Path |-> buildPathKey(cfg.PathsDir, e.op.file), Method |-> ToUpper(e.op.method),
     Rule |-> e.rule, Message |-> Verdict(e), Severity |-> "error"]

\* C2: with stop-on-error, validatePaths stops at the first rule violation: the
\* evaluation that rejected is the last one made, every one before it passed, Results
\* hold that one violation on return, and the error returned, "validation failed on
\* first error", is not the one of a run that completed with violations, "validation
\* failed".
C2_StopsAtFirstViolation ==
    /\ cfg.ValidateStopOnError /\ results # << >> =>
          /\ Len(results) = 1
          /\ pc \in {"validated", "exit"}
          /\ val.err = StoppedEarly
          /\ evalLog[Len(evalLog)].rejected
          /\ \A i \in 1..(Len(evalLog) - 1) : ~evalLog[i].rejected
          /\ results[1].Path = evalLog[Len(evalLog)].path
          /\ results[1].Rule = evalLog[Len(evalLog)].rule
          /\ results[1].Method = ToUpper(evalLog[Len(evalLog)].method)
          /\ pc = "exit" => ret = <<"v","a","l","i","d","a","t","i","o","n"," ","f","a","i","l","e","d",":"," ","v","a","l","i","d","a","t","i","o","n"," ","f","a","i","l","e","d"," ","o","n"," ","f","i","r","s","t"," ","e","r","r","o","r">>
    /\ ~cfg.ValidateStopOnError /\ results # << >> /\ Has("summary") =>
          /\ val.err = CompletedWithViolations
          /\ val.err # StoppedEarly

\* a run with stop-on-error has stopped at a violation with rules, operations and
\* fragments left to evaluate
C2_StoppedWithWorkLeft ==
    /\ cfg.ValidateStopOnError
    /\ pc = "exit"
    /\ Len(results) = 1
    /\ val.rule < Len(RuleNames)
    /\ val.keys # {}
    /\ val.files # << >>
    /\ Cardinality(Rejections) > 1

\* C3: without stop-on-error and with no read or parse error, validatePaths evaluates
\* every rule of the preset on every operation of every path fragment, the Results on
\* return are one entry for each pair of an operation and a rule that rejected it and
\* nothing else, and the run fails (an error is returned) exactly when a violation was
\* recorded; the restful preset on /v1/users with a GET operation without operationId
\* records exactly one violation, of rule operation-id-present.
C3_EveryRuleOnEveryOperation ==
    ~cfg.ValidateStopOnError /\ Has("summary") =>
        /\ Len(evalLog) = Cardinality(Evaluations)
        /\ \A e \in Evaluations : \E i \in DOMAIN evalLog :
              /\ evalLog[i].path = buildPathKey(cfg.PathsDir, e.op.file)
              /\ evalLog[i].method = e.op.method
              /\ evalLog[i].rule = e.rule
        /\ Len(results) = Cardinality(Rejections)
        /\ Range(results) = {ResultOf(e) : e \in Rejections}
        /\ val.err = CompletedWithViolations <=> results # << >>
        /\ val.err = Nil <=> results = << >>
        /\ pc = "exit" /\ results # << >> => ret = <<"v","a","l","i","d","a","t","i","o","n"," ","f","a","i","l","e","d",":"," ","v","a","l","i","d","a","t","i","o","n"," ","f","a","i","l","e","d">>
        /\ cfg.ValidatePreset = <<"r","e","s","t","f","u","l">> /\ <<"/","a","p","i","/","p","a","t","h","s","/","v","1","/","u","s","e","r","s",".","y","a","m","l">> \in Range(listYAMLFiles(cfg.PathsDir).files) =>
              \E i \in DOMAIN results :
                 /\ results[i].Rule = "operation-id-present"
                 /\ results[i].Method = <<"G","E","T">>
                 /\ \A j \in DOMAIN results : results[j].Path = <<"/","v","1","/","u","s","e","r","s">> => j = i

\* the restful preset has run to the end on /v1/users and on a fragment with two
\* operations, and has recorded more than one violation
C3_RestfulOnUsersRanToTheEnd ==
    /\ ~cfg.ValidateStopOnError
    /\ cfg.ValidatePreset = <<"r","e","s","t","f","u","l">>
    /\ pc = "exit"
    /\ val.err = CompletedWithViolations
    /\ <<"/","a","p","i","/","p","a","t","h","s","/","v","1","/","u","s","e","r","s",".","y","a","m","l">> \in Range(listYAMLFiles(cfg.PathsDir).files)
    /\ Cardinality(Operations) = 3
    /\ Len(results) > 1

\* what an unknown preset must give: the engine never runs, no path fragment is
\* listed, read or parsed, no result is recorded, the root document is not written,
\* and the run ends with an error
FailsBeforeAnyWork ==
    /\ ~Has("running") /\ ~Has("list") /\ ~Has("read")
    /\ evalLog = << >>
    /\ results = << >>
    /\ ~Has("compose")
    /\ rootDoc = Absent
    /\ pc \in {"run", "validated", "exit"}
    /\ pc = "exit" => ret = <<"v","a","l","i","d","a","t","i","o","n"," ","f","a","i","l","e","d",":"," ","u","n","k","n","o","w","n"," ","v","a","l","i","d","a","t","i","o","n"," ","p","r","e","s","e","t",":"," ">> \o cfg.ValidatePreset

\* C4: whenever the configured preset name is none of the known presets, the run
\* fails at once: the engine never enters Running, no path fragment is listed, read or
\* parsed, no result is recorded and the root document is not written.
C4_UnknownPresetFailsAtOnce ==
    cfg.ValidatePreset # << >> /\ cfg.ValidatePreset \notin DOMAIN ValidationPresets => FailsBeforeAnyWork

\* C4, amended: the same whenever validation is requested (a preset name is given and
\* skip-validation is not set) and the name is none of the known presets.
C4_UnknownPresetFailsWhenValidationRequested ==
    validationRequested(cfg) /\ cfg.ValidatePreset \notin DOMAIN ValidationPresets => FailsBeforeAnyWork

\* a run with an unknown preset, validation requested and path fragments at hand has ended
C4_UnknownPresetRunEnded ==
    /\ validationRequested(cfg)
    /\ cfg.ValidatePreset = <<"s","t","r","i","c","t">>
    /\ listYAMLFiles(cfg.PathsDir).files # << >>
    /\ pc = "exit"

\* validation was requested and has returned an error
ValidationFailed == validationRequested(cfg) /\ val.phase = "returned" /\ val.err # Nil

\* C5: in a run where validation is requested and fails (a violation recorded, with
\* or without stop-on-error, or a terminal validation error) no later stage ever
\* starts: the root document is not written, no generator, bundle or documentation
\* step runs, and the run returns an error; and composition starts only after
\* validation has returned success or when it was not requested.
C5_FailedValidationStopsTheRun ==
    /\ validationRequested(cfg) /\ val.phase = "returned" /\ results # << >> => val.err # Nil
    /\ ValidationFailed =>
          /\ ~LaterStageStarted
          /\ rootDoc = Absent
          /\ pc \in {"validated", "exit"}
          /\ pc = "exit" => ret = <<"v","a","l","i","d","a","t","i","o","n"," ","f","a","i","l","e","d",":"," ">> \o val.err
    /\ LaterStageStarted \/ pc \in {"compose", "ts", "go", "bundle", "docs", "return"} =>
          \/ ~validationRequested(cfg)
          \/ val.phase = "returned" /\ val.err = Nil

\* a run asked for every output has ended on a validation that completed with violations
C5_RunEndedOnViolations ==
    /\ ~cfg.ValidateStopOnError
    /\ cfg.OutputTS # << >> /\ cfg.BundleOut # << >>
    /\ results # << >>
    /\ val.err = CompletedWithViolations
    /\ pc = "exit"

----------------------------------------------------------------------------
(* Reference Rewriter: rewriteRefs applied to a text, and again to its result *)

LinePrefixes == {<< >>, <<" "," ","-"," ">>}

RefValues ==
    { <<"#","/","c","o","m","p","o","n","e","n","t","s","/","s","c","h","e","m","a","s","/","F","o","o">>, <<"'","#","/","c","o","m","p","o","n","e","n","t","s","/","s","c","h","e","m","a","s","/","F","o","o","'">>, <<"\"","#","/","c","o","m","p","o","n","e","n","t","s","/","p","a","r","a","m","e","t","e","r","s","/","a",".","y","a","m","l","\"">>,
      <<"#","/","c","o","m","p","o","n","e","n","t","s","/","s","c","h","e","m","a","s","/","a",".","y","a","m","l">>, <<"s","c","h","e","m","a",":","u","s","e","r","-","a","c","c","o","u","n","t">>, <<"S","C","H","E","M","A",":"," ","f","o","o","_","b","a","r"," ">>, <<"p","a","r","a","m",":","u","s","e","r","-","i","d">>,
      <<"'","p","a","r","a","m",":","u","s","e","r","-","i","d","'">>, <<".",".","/","s","c","h","e","m","a","s","/","f","o","o","B","a","r",".","y","a","m","l">>, <<"c","o","m","p","o","n","e","n","t","s","/","s","c","h","e","m","a","s","/","f","o","o","b","a","r",".","y","m","l">>,
      <<"s","c","h","e","m","a","s","/","a",".","y","m","l",".","y","a","m","l">>, <<".",".","/","p","a","r","a","m","e","t","e","r","s","/","u","s","e","r","-","i","d",".","Y","A","M","L">>, <<"x","s","c","h","e","m","a","s","/","a",".","y","a","m","l">>, <<".","/","s","c","h","e","m","a","s","/","b"," ","c",".","y","a","m","l">>,
      <<"o","t","h","e","r",".","y","a","m","l">>, << >>, <<"'">>, <<"s","c","h","e","m","a",":","f","o","o","b","a","r">>, <<"p","a","r","a","m",":","U","S","E","R","-","I","D">>, <<"s","c","h","e","m","a",":","f","o","o"," ","#"," ","n","o","t","e">> }

\* the lines drawn: two without the marker, and every prefix, marker, spacing and value
TextLines ==
    {<< >>, <<"t","y","p","e",":"," ","o","b","j","e","c","t">>}
    \cup {p \o RefMarker \o sp \o v : p \in LinePrefixes, sp \in {<< >>, <<" ">>}, v \in RefValues}

\* the texts of one to MaxLines lines
RECURSIVE LinesUpTo(_)
LinesUpTo(n) ==
    IF n = 0 THEN {<< >>}
    ELSE LinesUpTo(n - 1) \cup {Append(t, l) : t \in {u \in LinesUpTo(n - 1) : Len(u) = n - 1}, l \in TextLines}

\* the name maps buildNameMap builds of these listings
SchemaMaps ==
    {nameMapLoop(files, << >>) :
        files \in {<< >>,
                   <<<<"/","a","p","i","/","c","o","m","p","o","n","e","n","t","s","/","s","c","h","e","m","a","s","/","f","o","o","B","a","r",".","y","a","m","l">>, <<"/","a","p","i","/","c","o","m","p","o","n","e","n","t","s","/","s","c","h","e","m","a","s","/","f","o","o","b","a","r",".","y","a","m","l">>>>,
                   <<<<"/","a","p","i","/","c","o","m","p","o","n","e","n","t","s","/","s","c","h","e","m","a","s","/","f","o","o","b","a","r",".","y","a","m","l">>, <<"/","a","p","i","/","c","o","m","p","o","n","e","n","t","s","/","s","c","h","e","m","a","s","/","f","o","o","B","a","r",".","y","a","m","l">>>>}}

ParamMaps ==
    {nameMapLoop(files, << >>) :
        files \in {<< >>, <<<<"/","a","p","i","/","c","o","m","p","o","n","e","n","t","s","/","p","a","r","a","m","e","t","e","r","s","/","u","s","e","r","-","i","d",".","Y","A","M","L">>, <<"/","a","p","i","/","c","o","m","p","o","n","e","n","t","s","/","p","a","r","a","m","e","t","e","r","s","/","U","s","e","r","-","I","d",".","y","a","m","l">>>>}}

InitRewrite ==
    /\ arg \in {[text |-> Text(lines), schemaMap |-> sm, paramMap |-> pm] :
                   lines \in LinesUpTo(MaxLines) \ {<< >>}, sm \in SchemaMaps, pm \in ParamMaps}
    /\ ret = [once |-> Pending, twice |-> Pending]
    /\ pc = "text"
    /\ Unused

Rewrite ==
    /\ pc = "text"
    /\ ret' = [ret EXCEPT !.once = rewriteRefs(arg.text, arg.schemaMap, arg.paramMap)]
    /\ pc' = "once"
    /\ UNCHANGED <<cfg, fs, walk, val, results, evalLog, rootDoc, events, written, arg>>

RewriteAgain ==
    /\ pc = "once"
    /\ ret' = [ret EXCEPT !.twice = rewriteRefs(ret.once, arg.schemaMap, arg.paramMap)]
    /\ pc' = "twice"
    /\ UNCHANGED <<cfg, fs, walk, val, results, evalLog, rootDoc, events, written, arg>>

NextRewrite == Rewrite \/ RewriteAgain

SpecRewrite == InitRewrite /\ [][NextRewrite]_vars

\* the value of the line's $ref, quotes stripped, starts with #/components/
Canonical(ln) ==
    /\ Index(ln, RefMarker) >= 0
    /\ HasPrefix(stripQuotes(From(ln, Index(ln, RefMarker) + Len(RefMarker))), <<"#","/","c","o","m","p","o","n","e","n","t","s","/">>)

\* every canonical line of the text before is the same line of the text after
CanonicalLinesKept(before, after) ==
    \A i \in DOMAIN before :
        Canonical(before[i]) => Len(after) = Len(before) /\ after[i] = before[i]

\* C10: rewriteRefs is idempotent, rewriteRefs(rewriteRefs(t)) = rewriteRefs(t) for
\* every text and pair of name maps, and it returns unchanged every line whose $ref
\* value already starts with #/components/.
C10_RewriteAgainChangesNothing ==
    /\ pc = "twice" => ret.twice = ret.once
    /\ pc \in {"once", "twice"} => CanonicalLinesKept(SplitCh(arg.text, "\n"), SplitCh(ret.once, "\n"))

\* a text of two lines, one canonical and one that the first rewriting changed through
\* the schema map, has been rewritten twice
C10_RewrittenTwice ==
    /\ pc = "twice"
    /\ Len(SplitCh(arg.text, "\n")) = 2
    /\ Canonical(SplitCh(arg.text, "\n")[1])
    /\ SplitCh(arg.text, "\n")[2] = <<" "," ","-"," ","$","r","e","f",":"," ",".",".","/","s","c","h","e","m","a","s","/","f","o","o","B","a","r",".","y","a","m","l">>
    /\ SplitCh(ret.once, "\n")[2] = <<" "," ","-"," ","$","r","e","f",":"," ","#","/","c","o","m","p","o","n","e","n","t","s","/","s","c","h","e","m","a","s","/","F","o","o","b","a","r">>

\* the value of the $ref of a line that holds the marker: what follows the marker,
\* without the white space and the quotes around it
RefValueOf(ln) == stripQuotes(From(ln, Index(ln, RefMarker) + Len(RefMarker)))

\* the line is left \o "$ref:" \o ..., with the pseudo form word n as its value, and
\* out is what the claim has for it
PseudoFormRewritten(ln, out, word, group) ==
    (Index(ln, RefMarker) >= 0 /\ HasPrefix(RefValueOf(ln), word))
        => out = SubSeq(ln, 1, Index(ln, RefMarker)) \o <<"$","r","e","f",":"," ","#","/","c","o","m","p","o","n","e","n","t","s","/">> \o group \o Slash
                 \o pascalCase(From(RefValueOf(ln), Len(word)))

PseudoFormsRewritten(before, after) ==
    /\ Len(after) = Len(before)
    /\ \A i \in DOMAIN before :
          /\ PseudoFormRewritten(before[i], after[i], <<"s","c","h","e","m","a",":">>, <<"s","c","h","e","m","a","s">>)
          /\ PseudoFormRewritten(before[i], after[i], <<"p","a","r","a","m",":">>, <<"p","a","r","a","m","e","t","e","r","s">>)

\* C11: for every name n, rewriteRefs turns a line whose $ref value is schema:n into
\* left + "$ref: #/components/schemas/" + pascalCase(n), and one whose value is param:n
\* into left + "$ref: #/components/parameters/" + pascalCase(n), whatever the name maps
\* hold.
C11_PseudoFormsGivePascalCase ==
    pc \in {"once", "twice"} => PseudoFormsRewritten(SplitCh(arg.text, "\n"), SplitCh(ret.once, "\n"))

\* a text with the line "$ref: schema:foobar" has been rewritten with a schema map
\* that holds another name, FooBar, for foobar
C11_PseudoFormWithOtherNameInMap ==
    /\ pc = "once"
    /\ SplitCh(arg.text, "\n") = <<<<"$","r","e","f",":"," ","s","c","h","e","m","a",":","f","o","o","b","a","r">>>>
    /\ Lookup(arg.schemaMap, <<"f","o","o","b","a","r">>) = <<"F","o","o","B","a","r">>
    /\ ret.once = <<"$","r","e","f",":"," ","#","/","c","o","m","p","o","n","e","n","t","s","/","s","c","h","e","m","a","s","/","F","o","o","b","a","r">>

----------------------------------------------------------------------------
(* Component Name derivation: pascalCase applied to a name, and again to its result *)

\* the bytes of the names drawn: letters, a digit-free sample of separators, and the
\* two bytes of a UTF-8 encoded e-acute
ComponentNameAlphabet == {"a", "B", "-", "_", " ", "xC3", "xA9"}

ComponentNames ==
    StringsUpTo(ComponentNameAlphabet, MaxNameLen) \cup {<<"u","s","e","r","-","a","c","c","o","u","n","t">>, <<"U","s","e","r","A","c","c","o","u","n","t">>, <<"u","s","e","r","_","i","d">>}

InitName ==
    /\ arg \in ComponentNames
    /\ ret = [once |-> Pending, twice |-> Pending]
    /\ pc = "name"
    /\ Unused

DeriveName ==
    /\ pc = "name"
    /\ ret' = [ret EXCEPT !.once = pascalCase(arg)]
    /\ pc' = "once"
    /\ UNCHANGED <<cfg, fs, walk, val, results, evalLog, rootDoc, events, written, arg>>

DeriveNameAgain ==
    /\ pc = "once"
    /\ ret' = [ret EXCEPT !.twice = pascalCase(ret.once)]
    /\ pc' = "twice"
    /\ UNCHANGED <<cfg, fs, walk, val, results, evalLog, rootDoc, events, written, arg>>

NextName == DeriveName \/ DeriveNameAgain

SpecName == InitName /\ [][NextName]_vars

IsString(s) == \A i \in DOMAIN s : s[i] \in Chars

IsAscii(s) == \A i \in DOMAIN s : Code[s[i]] < 128

\* C12: pascalCase is total and idempotent: it returns a string for every input, the
\* empty one included, and pascalCase(pascalCase(s)) = pascalCase(s) for every s;
\* user-account gives UserAccount and UserAccount gives UserAccount.
C12_PascalCaseTotalAndIdempotent ==
    /\ pc \in {"once", "twice"} => IsString(ret.once)
    /\ pc = "twice" => ret.twice = ret.once
    /\ (pc \in {"once", "twice"} /\ arg \in {<<"u","s","e","r","-","a","c","c","o","u","n","t">>, <<"U","s","e","r","A","c","c","o","u","n","t">>}) => ret.once = <<"U","s","e","r","A","c","c","o","u","n","t">>

\* The same for the names that hold no byte from 128 on.
PascalCaseIdempotentOnAscii ==
    /\ pc \in {"once", "twice"} => IsString(ret.once)
    /\ (pc = "twice" /\ IsAscii(arg)) => ret.twice = ret.once
    /\ (pc \in {"once", "twice"} /\ arg \in {<<"u","s","e","r","-","a","c","c","o","u","n","t">>, <<"U","s","e","r","A","c","c","o","u","n","t">>}) => ret.once = <<"U","s","e","r","A","c","c","o","u","n","t">>

----------------------------------------------------------------------------
(* Rule Engine: the path rules of the google preset applied to one path *)

MaxSegments == 3

RuleSegments ==
    { <<"v","1">>, <<"v","1","b","e","t","a">>, <<"a","c","c","o","u","n","t">>, <<"C","a","t","e","g","o","r","y">>, <<"u","s","e","r","s">>, <<"a","c","t","i","v","i","t","y">>, <<"l","i","s","t","I","t","e","m","s">>,
      <<"{","a","c","c","o","u","n","t","I","d","}">>, <<"{","o","r","d","e","r","I","d","}">>, <<"{","i","d","}">>, <<"{","I","d","}">>, <<"{","u","s","e","r","_","i","d","}">>, <<"{","a","c","c","o","u","n","t","}">> }

RECURSIVE SegmentsUpTo(_)
SegmentsUpTo(n) ==
    IF n = 0 THEN {<< >>}
    ELSE SegmentsUpTo(n - 1)
         \cup {Append(p, g) : p \in {q \in SegmentsUpTo(n - 1) : Len(q) = n - 1}, g \in RuleSegments}

RulePaths ==
    {Slash \o Join(segs, Slash) : segs \in SegmentsUpTo(MaxSegments) \ {<< >>}}
    \cup {<<"/","v","1","/","a","c","c","o","u","n","t","/","{","a","c","c","o","u","n","t","I","d","}">>, <<"/","v","1","/","u","s","e","r","s","/">>, <<"/","v","1","/","u","s","e","r","s","/","{","u","s","e","r","I","d","}","/","o","r","d","e","r","/","{","o","r","d","e","r","-","i","d","}","/","{","n","}">>}

\* an operation that no rule of the preset rejects
CleanOperation == Op(TRUE, TRUE, "with200")

InitRule ==
    /\ arg \in RulePaths
    /\ ret = [plural |-> Pending, param |-> Pending, kebab |-> Pending]
    /\ pc = "path"
    /\ Unused

\* rule.Validate of the google preset's rule of that name, on the path
ApplyRule(field, rule) ==
    /\ pc = "path"
    /\ rule \in Range(lookupPreset(<<"g","o","o","g","l","e">>).rules)
    /\ ret[field] = Pending
    /\ ret' = [ret EXCEPT ![field] = Validate(rule, arg, <<"g","e","t">>, CleanOperation)]
    /\ UNCHANGED <<cfg, fs, walk, pc, val, results, evalLog, rootDoc, events, written, arg>>

ApplyPluralRule == ApplyRule("plural", "collection-names-plural")

ApplyParamRule == ApplyRule("param", "resource-id-param")

ApplyKebabRule == ApplyRule("kebab", "path-case-kebab")

NextRule == ApplyPluralRule \/ ApplyParamRule \/ ApplyKebabRule

SpecRule == InitRule /\ [][NextRule]_vars

\* the plural of a word by the suffix rules of the claim
PluralBySuffix(w) ==
    IF w # << >> /\ w[Len(w)] = "y" THEN SubSeq(w, 1, Len(w) - 1) \o <<"i","e","s">>
    ELSE IF HasSuffix(w, <<"s">>) \/ HasSuffix(w, <<"c","h">>) \/ HasSuffix(w, <<"s","h">>) THEN w \o <<"e","s">>
    ELSE w \o <<"s">>

\* the segments of the path that are no {param} placeholder and no version segment
\* and equal a word of the singular-noun list, case ignored
SingularSegments(path) ==
    {g \in Range(PathSegments(path)) :
        /\ ~(HasPrefix(g, <<"{">>) /\ HasSuffix(g, <<"}">>))
        /\ ~IsVersionSegment(g)
        /\ ToLower(g) \in Range(singularWords)}

PluralMessage(g) ==
    <<"c","o","l","l","e","c","t","i","o","n"," ","n","a","m","e"," ","'">> \o g \o <<"'"," ","s","h","o","u","l","d"," ","b","e"," ","p","l","u","r","a","l",":"," ","'">> \o PluralBySuffix(ToLower(g)) \o <<"'">>

\* C13: the collection-names-plural rule rejects a path if and only if a segment that
\* is no {param} placeholder and no version segment equals, case ignored, a word of the
\* singular-noun list, and its message suggests the plural by the suffix rules; in the
\* google preset /v1/account/{accountId} gives a violation that suggests accounts.
C13_PluralRuleRejectsSingularSegments ==
    ret.plural # Pending =>
        /\ ret.plural # Nil <=> SingularSegments(arg) # {}
        /\ ret.plural # Nil => \E g \in SingularSegments(arg) : ret.plural = PluralMessage(g)
        /\ arg = <<"/","v","1","/","a","c","c","o","u","n","t","/","{","a","c","c","o","u","n","t","I","d","}">>
              => ret.plural = <<"c","o","l","l","e","c","t","i","o","n"," ","n","a","m","e"," ","'","a","c","c","o","u","n","t","'"," ","s","h","o","u","l","d"," ","b","e"," ","p","l","u","r","a","l",":"," ","'","a","c","c","o","u","n","t","s","'">>

\* the rule has rejected a path for a segment whose plural ends in ies, though a
\* placeholder named after a singular noun comes before it
C13_RejectedAfterPlaceholder ==
    /\ arg = <<"/","v","1","/","{","a","c","c","o","u","n","t","}","/","C","a","t","e","g","o","r","y">>
    /\ ret.plural = <<"c","o","l","l","e","c","t","i","o","n"," ","n","a","m","e"," ","'","C","a","t","e","g","o","r","y","'"," ","s","h","o","u","l","d"," ","b","e"," ","p","l","u","r","a","l",":"," ","'","c","a","t","e","g","o","r","i","e","s","'">>

\* the fixed allow-list of identifier names
AllowedParamNames ==
    {<<"i","d">>, <<"u","s","e","r","I","d">>, <<"a","c","c","o","u","n","t","I","d">>, <<"m","i","s","s","i","o","n","I","d">>, <<"p","a","r","t","n","e","r","I","d">>, <<"c","a","r","I","d">>, <<"a","c","t","i","v","i","t","y","I","d">>, <<"r","e","w","a","r","d","I","d">>, <<"m","e","m","b","e","r","I","d">>}

\* the message that names the placeholder
ParamMessage(name) ==
    <<"p","a","r","a","m","e","t","e","r"," ","'","{">> \o name
    \o <<"}","'"," ","s","h","o","u","l","d"," ","f","o","l","l","o","w"," ","n","a","m","i","n","g"," ","c","o","n","v","e","n","t","i","o","n"," ","(","c","o","n","s","i","d","e","r"," ","u","s","i","n","g"," ","{","i","d","}"," ","f","o","r"," ","r","e","s","o","u","r","c","e"," ","i","d","e","n","t","i","f","i","e","r","s",")">>

\* the rule's verdict on the placeholder names, given which names are acceptable:
\* accepted when all are, else rejected with the message naming the first that is not
ParamVerdictIs(verdict, names, Acceptable(_)) ==
    /\ verdict = Nil <=> \A i \in DOMAIN names : Acceptable(names[i])
    /\ \A i \in DOMAIN names :
          (~Acceptable(names[i]) /\ \A j \in 1..(i - 1) : Acceptable(names[j]))
              => verdict = ParamMessage(names[i])

EndsWithId(name) == name = <<"i","d">> \/ HasSuffix(name, <<"I","d">>) \/ name \in AllowedParamNames

EndsWithIdAfterPrefix(name) ==
    name = <<"i","d">> \/ (HasSuffix(name, <<"I","d">>) /\ Len(name) > Len(<<"I","d">>)) \/ name \in AllowedParamNames

\* C19 as stated: the resource-id-param rule accepts a path if and only if every
\* {param} placeholder name in it is id, ends with Id or is in the allow-list, and it
\* rejects the path naming the first placeholder that is none of the three.
C19_ParamRuleAcceptsIdNames ==
    ret.param # Pending => ParamVerdictIs(ret.param, braceCaptures(arg, 1), EndsWithId)

\* C19, amended: the same with "ends with Id" read as ending with Id after at least
\* one other character; the name Id alone is rejected.
C19_ParamRuleAcceptsPrefixedIdNames ==
    ret.param # Pending => ParamVerdictIs(ret.param, braceCaptures(arg, 1), EndsWithIdAfterPrefix)

\* the rule has rejected a path whose first placeholder is acceptable, naming the
\* second
C19_RejectedForSecondPlaceholder ==
    /\ arg = <<"/","v","1","/","u","s","e","r","s","/","{","u","s","e","r","I","d","}","/","o","r","d","e","r","/","{","o","r","d","e","r","-","i","d","}","/","{","n","}">>
    /\ ret.param = ParamMessage(<<"o","r","d","e","r","-","i","d">>)

\* the run has returned the error of the bundle step
BundleFailed == pc = "exit" /\ ret = BundleError

\* the documentation-rendering step was started with the root document as its input
DocsRenderedFromRoot ==
    \E i \in DOMAIN events : events[i].kind = "docs" /\ events[i].input = cfg.RootPath

\* C14: when the bundle step fails and HTML documentation is requested, the
\* documentation-rendering step is still attempted, with the root document as its
\* input; only a failure of the render step itself ends the run at that stage.
C14_FailedBundleStillRendersDocs ==
    /\ (BundleFailed /\ cfg.Redocly # << >>) => DocsRenderedFromRoot
    /\ (pc = "exit" /\ Has("docs") /\ ret # Nil) => ret = DocsError

\* What the run does: a failed bundle step is the last stage of the run, and the
\* render step reads the root document exactly when no bundle is configured.
FailedBundleEndsTheRun ==
    /\ BundleFailed => ~Has("docs")
    /\ \A i \in DOMAIN events :
          events[i].kind = "docs" => (events[i].input = cfg.RootPath <=> cfg.BundleOut = << >>)

\* the elements of the set S of strings as the one ascending sequence
AscendingOf(S) ==
    CHOOSE q \in Perms(S) : \A i \in DOMAIN q : \A j \in DOMAIN q : i < j => StrLess(q[i], q[j])

\* the operations of the fragment file f, its method keys in ascending order
OperationsOf(f) ==
    SelectSeq([i \in 1..Cardinality(DOMAIN Content(f).parsed) |->
                  [file |-> f, method |-> AscendingOf(DOMAIN Content(f).parsed)[i]]],
              LAMBDA o : Content(o.file).parsed[o.method] # Scalar)

\* the results of the rules of the preset, in declared order, on the operation o
ResultsOfOperation(o) ==
    SelectSeq([i \in 1..Len(RuleNames) |-> [op |-> o, rule |-> RuleNames[i]]],
              LAMBDA e : Verdict(e) # Nil)

RECURSIVE ResultsOfOperations(_)
ResultsOfOperations(ops) ==
    IF ops = << >> THEN << >>
    ELSE [i \in 1..Len(ResultsOfOperation(Head(ops))) |-> ResultOf(ResultsOfOperation(Head(ops))[i])]
         \o ResultsOfOperations(Tail(ops))

RECURSIVE ResultsOfFragments(_)
ResultsOfFragments(files) ==
    IF files = << >> THEN << >>
    ELSE ResultsOfOperations(OperationsOf(Head(files))) \o ResultsOfFragments(Tail(files))

\* the Results of a run to the end that takes the path fragments in ascending order of
\* their file paths, the method keys of each in ascending order, and the rules as declared
ResultsInSortedOrder == ResultsOfFragments(Ascending(listYAMLFiles(cfg.PathsDir).files))

\* the path fragments read so far, in the order of the reads
FragmentsRead ==
    [i \in 1..Len(SelectSeq(events, LAMBDA e : e.kind = "read")) |->
        SelectSeq(events, LAMBDA e : e.kind = "read")[i].path]

\* C15: the Rule Engine takes the path fragments in sorted order of their file paths
\* and the rules in declared order, and the sequence of Results (with stop-on-error the
\* single violation) is the same in every run: it depends neither on the order of the
\* directory walk nor on the order in which a fragment's method keys are handed out,
\* so it is the sequence of the run that takes both in ascending order.
C15_ResultsInOneOrder ==
    /\ \A i \in DOMAIN FragmentsRead :
          FragmentsRead[i] = Ascending(listYAMLFiles(cfg.PathsDir).files)[i]
    /\ (Has("summary") /\ ~cfg.ValidateStopOnError) => results = ResultsInSortedOrder
    /\ (cfg.ValidateStopOnError /\ results # << >>) => results = <<ResultsInSortedOrder[1]>>

\* the walk returned the fragments in ascending order and no fragment has two operations
OrdersAscending ==
    /\ listYAMLFiles(cfg.PathsDir).files = Ascending(listYAMLFiles(cfg.PathsDir).files)
    /\ \A f \in Range(listYAMLFiles(cfg.PathsDir).files) : Len(OperationsOf(f)) <= 1

\* The same under the premise that the walk and the method keys leave no choice: the
\* Results follow the order in which the fragments were listed.
ResultsInListedOrder ==
    OrdersAscending =>
        /\ \A i \in DOMAIN FragmentsRead :
              FragmentsRead[i] = Ascending(listYAMLFiles(cfg.PathsDir).files)[i]
        /\ (Has("summary") /\ ~cfg.ValidateStopOnError) => results = ResultsInSortedOrder
        /\ (cfg.ValidateStopOnError /\ results # << >>) => results = <<ResultsInSortedOrder[1]>>

\* the path fragment read last
LastRead == FragmentsRead[Len(FragmentsRead)]

\* the content of the fragment read last could not be read or parsed
LastReadFailed == FragmentsRead # << >> /\ Content(LastRead).kind # "ok"

\* the terminal error of validatePaths for the fragment f
TerminalErrorOf(f) ==
    IF Content(f).kind = "unreadable"
    THEN <<"f","a","i","l","e","d"," ","t","o"," ","r","e","a","d"," ">> \o f \o <<":"," ">> \o ReadError(f)
    ELSE <<"f","a","i","l","e","d"," ","t","o"," ","p","a","r","s","e"," ">> \o f \o <<":"," ","y","a","m","l",":"," ","d","i","d"," ","n","o","t"," ","f","i","n","d"," ","e","x","p","e","c","t","e","d"," ","n","o","d","e"," ","c","o","n","t","e","n","t">>

\* C16: when the content of a path fragment cannot be read or parsed, validatePaths
\* returns a terminal error at once, with or without stop-on-error: nothing is
\* evaluated or recorded for that fragment, no later fragment is read or evaluated, the
\* run does not go on to composition, and the failure is no Validation Result.
C16_UnreadableFragmentEndsValidation ==
    LastReadFailed =>
        /\ val.phase = "returned"
        /\ val.err = TerminalErrorOf(LastRead)
        /\ val.err \notin {StoppedEarly, CompletedWithViolations}
        /\ ~Has("summary")
        /\ \A i \in DOMAIN evalLog :
              \E j \in 1..(Len(FragmentsRead) - 1) :
                 evalLog[i].path = buildPathKey(cfg.PathsDir, FragmentsRead[j])
        /\ \A i \in DOMAIN results :
              /\ results[i].Path # buildPathKey(cfg.PathsDir, LastRead)
              /\ results[i].Message # val.err
        /\ Len(results) = Cardinality({i \in DOMAIN evalLog : evalLog[i].rejected})
        /\ ~LaterStageStarted
        /\ rootDoc = Absent
        /\ pc \in {"validated", "exit"}
        /\ pc = "exit" => ret = <<"v","a","l","i","d","a","t","i","o","n"," ","f","a","i","l","e","d",":"," ">> \o val.err

\* a run without stop-on-error has ended on a fragment that does not parse, the first
\* of two that the walk returned; the other, which the preset would reject, was never read
C16_EndedOnMalformedFragment ==
    /\ ~cfg.ValidateStopOnError
    /\ pc = "exit"
    /\ LastReadFailed
    /\ Content(LastRead).kind = "malformed"
    /\ Len(FragmentsRead) = 1
    /\ Len(listYAMLFiles(cfg.PathsDir).files) = 2
    /\ Rejections # {}
    /\ results = << >>

\* the number of white-space characters that begin s
RECURSIVE LeadingSpace(_)
LeadingSpace(s) == IF s # << >> /\ IsSpaceCh(Head(s)) THEN 1 + LeadingSpace(Tail(s)) ELSE 0

\* the number of characters other than white space that begin s
RECURSIVE LeadingToken(_)
LeadingToken(s) == IF s # << >> /\ ~IsSpaceCh(Head(s)) THEN 1 + LeadingToken(Tail(s)) ELSE 0

\* what follows the marker in a line that holds it
AfterMarker(ln) == From(ln, Index(ln, RefMarker) + Len(RefMarker))

\* what follows the reference token in after: the token is the run of characters other
\* than white space that comes after the white space at the start
AfterToken(after) == From(after, LeadingSpace(after) + LeadingToken(From(after, LeadingSpace(after))))

\* out is after with its reference token replaced by another and nothing else changed
OnlyTokenReplaced(after, out) ==
    /\ Len(out) >= LeadingSpace(after) + Len(AfterToken(after))
    /\ SubSeq(out, 1, LeadingSpace(after)) = SubSeq(after, 1, LeadingSpace(after))
    /\ HasSuffix(out, AfterToken(after))
    /\ \A i \in (LeadingSpace(after) + 1)..(Len(out) - Len(AfterToken(after))) : ~IsSpaceCh(out[i])

\* the line out keeps what the line ln has before the marker, and the marker
PrefixKept(ln, out) ==
    HasPrefix(out, SubSeq(ln, 1, Index(ln, RefMarker) + Len(RefMarker)))

LinesKept(before, after) ==
    /\ Len(after) = Len(before)
    /\ \A i \in DOMAIN before :
          IF Index(before[i], RefMarker) < 0 THEN after[i] = before[i]
          ELSE PrefixKept(before[i], after[i])

\* C17: rewriteRefs returns a text of as many lines as its input, in which a line
\* without the $ref: marker is the input line, and a line with the marker keeps what
\* it had before the marker and the rest of the line verbatim, only the reference
\* token being replaced.
C17_OnlyTheReferenceTokenChanges ==
    pc \in {"once", "twice"} =>
        /\ LinesKept(SplitCh(arg.text, "\n"), SplitCh(ret.once, "\n"))
        /\ \A i \in DOMAIN SplitCh(arg.text, "\n") :
              Index(SplitCh(arg.text, "\n")[i], RefMarker) >= 0
                  => OnlyTokenReplaced(AfterMarker(SplitCh(arg.text, "\n")[i]),
                                       AfterMarker(SplitCh(ret.once, "\n")[i]))

\* What holds of it: the number of lines, the lines without the marker, and the part
\* of a line up to and including the marker are kept.
RewriteKeepsLinesAndPrefixes ==
    pc \in {"once", "twice"} => LinesKept(SplitCh(arg.text, "\n"), SplitCh(ret.once, "\n"))

----------------------------------------------------------------------------
(* Reference Rewriter: buildNameMap applied to one directory *)

NameMapCandidates ==
    { F(<<"/","a","p","i","/","c","o","m","p","o","n","e","n","t","s","/","s","c","h","e","m","a","s","/","a","/","f","o","o","B","a","r",".","y","a","m","l">>), F(<<"/","a","p","i","/","c","o","m","p","o","n","e","n","t","s","/","s","c","h","e","m","a","s","/","a","-","b","/","f","o","o","b","a","r",".","y","a","m","l">>),
      F(<<"/","a","p","i","/","c","o","m","p","o","n","e","n","t","s","/","s","c","h","e","m","a","s","/","f","o","o","-","b","a","r",".","y","a","m","l">>), F(<<"/","a","p","i","/","c","o","m","p","o","n","e","n","t","s","/","s","c","h","e","m","a","s","/","f","o","o","_","b","a","r",".","y","a","m","l">>),
      F(<<"/","a","p","i","/","c","o","m","p","o","n","e","n","t","s","/","s","c","h","e","m","a","s","/","F","O","O","B","A","R",".","Y","A","M","L">>), F(<<"/","a","p","i","/","c","o","m","p","o","n","e","n","t","s","/","s","c","h","e","m","a","s","/","u","s","e","r",".","y","a","m","l">>) }

InitNameMap ==
    /\ fs \in FileSystems(NameMapCandidates)
    /\ walk \in Perms(FilePaths(fs))
    /\ arg = SchemasDir
    /\ ret = NotReturned
    /\ pc = "call"
    /\ cfg = NoCfg /\ val = NoVal /\ results = << >> /\ evalLog = << >>
    /\ rootDoc = Absent /\ events = << >> /\ written = << >>

BuildNameMap ==
    /\ pc = "call"
    /\ ret' = buildNameMap(arg)
    /\ pc' = "returned"
    /\ UNCHANGED <<cfg, fs, walk, val, results, evalLog, rootDoc, events, written, arg>>

NextNameMap == BuildNameMap

SpecNameMap == InitNameMap /\ [][NextNameMap]_vars

\* the keys under which the name map holds the name of the file f
KeysOf(f) == {ToLower(TrimSuffix(Base(f), YamlExt)), ToLower(Base(f))}

\* the files of the sequence files that have the key k
HavingKey(files, k) == SelectSeq(files, LAMBDA f : k \in KeysOf(f))

\* two distinct files of the listing collide in the key k
Collide(files, k) == Len(HavingKey(files, k)) >= 2

\* the name the map holds under k when the last file of files that has the key owns it
NameOfLast(files, k) ==
    pascalCase(TrimSuffix(Base(HavingKey(files, k)[Len(HavingKey(files, k))]), YamlExt))

\* C18: when two distinct files of the scanned directory collide in the name map that
\* buildNameMap builds, no error is raised and the entry kept is the one of the file
\* that is last in the ascending order of the paths, in whatever order the walk
\* returned the files.
C18_LastSortedFileOwnsTheKey ==
    pc = "returned" =>
        \A k \in DOMAIN ret :
            Collide(listYAMLFiles(arg).files, k)
                => ret[k] = NameOfLast(SortStrings(listYAMLFiles(arg).files), k)

\* What the code builds: the entry kept is the one of the file the walk returned last.
LastWalkedFileOwnsTheKey ==
    pc = "returned" =>
        /\ DOMAIN ret = UNION {KeysOf(f) : f \in Range(listYAMLFiles(arg).files)}
        /\ \A k \in DOMAIN ret : ret[k] = NameOfLast(listYAMLFiles(arg).files, k)

----------------------------------------------------------------------------
(* Path-Key Deriver and the path-case-kebab rule *)

\* the name holds '-', '_' or ' ' followed by a lower-case letter
SeparatorThenLower(name) ==
    \E i \in 1..(Len(name) - 1) : name[i] \in {"-", "_", " "} /\ IsLowerCh(name[i + 1])

HasUpper(s) == \E i \in DOMAIN s : IsUpperCh(s[i])

\* the listed path fragments whose file name is such a name
CamelFragments == {f \in Range(listYAMLFiles(cfg.PathsDir).files) : SeparatorThenLower(Base(f))}

KeyOf(f) == buildPathKey(cfg.PathsDir, f)

\* Results holds a path-case-kebab violation for the operation o
KebabViolationFor(o) ==
    \E i \in DOMAIN results :
        /\ results[i].Path = KeyOf(o.file)
        /\ results[i].Method = ToUpper(o.method)
        /\ results[i].Rule = "path-case-kebab"

\* validatePaths has returned from a validation under the google preset
GoogleValidationReturned ==
    /\ validationRequested(cfg)
    /\ cfg.ValidatePreset = <<"g","o","o","g","l","e">>
    /\ val.phase = "returned"

\* validatePaths went through every fragment and printed its summary
RanToSummary == val.err \in {Nil, CompletedWithViolations}

\* C20 as stated: for every path fragment whose file name holds '-', '_' or ' '
\* followed by a lower-case letter, the last segment of the derived path key holds an
\* upper-case letter, so under the google preset every operation of the fragment gets
\* a path-case-kebab violation, and the validation of a set that holds such a fragment
\* with at least one operation never ends Passed.
C20_CamelTailNeverPasses ==
    GoogleValidationReturned =>
        \A f \in CamelFragments :
            /\ HasUpper(Base(KeyOf(f)))
            /\ \A o \in Range(OperationsOf(f)) : KebabViolationFor(o)
            /\ OperationsOf(f) # << >> => val.err # Nil

\* C20, amended: the last segment holds an upper-case letter; unless it is a {param}
\* placeholder, every evaluation of path-case-kebab on the fragment's key is a
\* rejection, every operation of the fragment has its violation in the Results of a
\* validation that ran to its summary, and a validation of a set that holds the
\* fragment with at least one operation does not end Passed.
C20_UnbracedCamelTailNeverPasses ==
    GoogleValidationReturned =>
        \A f \in CamelFragments :
            /\ HasUpper(Base(KeyOf(f)))
            /\ ~IsBracedSegment(Base(KeyOf(f))) =>
                  /\ \A i \in DOMAIN evalLog :
                        evalLog[i].path = KeyOf(f) /\ evalLog[i].rule = "path-case-kebab"
                            => evalLog[i].rejected
                  /\ RanToSummary => \A o \in Range(OperationsOf(f)) : KebabViolationFor(o)
                  /\ OperationsOf(f) # << >> => val.err # Nil

\* a validation that ran to its summary on list-items.yaml and {user-id}.yaml: the
\* first has its violation, the second has none
C20_ListItemsRejectedBracedTailAccepted ==
    /\ GoogleValidationReturned
    /\ val.err = CompletedWithViolations
    /\ CamelFragments = {<<"/","a","p","i","/","p","a","t","h","s","/","v","1","/","f","o","o","/","l","i","s","t","-","i","t","e","m","s",".","y","a","m","l">>, <<"/","a","p","i","/","p","a","t","h","s","/","v","1","/","u","s","e","r","s","/","{","u","s","e","r","-","i","d","}",".","y","a","m","l">>}
    /\ \E i \in DOMAIN results :
          /\ results[i].Path = <<"/","v","1","/","f","o","o","/","l","i","s","t","I","t","e","m","s">>
          /\ results[i].Rule = "path-case-kebab"
          /\ results[i].Message = <<"p","a","t","h"," ","s","e","g","m","e","n","t"," ","'","l","i","s","t","I","t","e","m","s","'"," ","s","h","o","u","l","d"," ","u","s","e"," ","k","e","b","a","b","-","c","a","s","e"," ","(","l","o","w","e","r","c","a","s","e"," ","w","i","t","h"," ","d","a","s","h","e","s",")">>
    /\ \A i \in DOMAIN results : results[i].Path # <<"/","v","1","/","u","s","e","r","s","/","{","u","s","e","r","I","d","}">>
    /\ \E i \in DOMAIN evalLog :
          evalLog[i].path = <<"/","v","1","/","u","s","e","r","s","/","{","u","s","e","r","I","d","}">> /\ evalLog[i].rule = "path-case-kebab"

----------------------------------------------------------------------------
(* Root Composer: run after run on one file system *)

\* the Config of --output /api/paths: the root file lies among the path fragments
ConfigRootInPaths(join) ==
    [Config(join, << >>, FALSE, FALSE, NoOutputs) EXCEPT !.RootPath = JoinPath(PathsDir, RootFile)]

\* a root document left by a run on fragments that are gone since
StaleDocument ==
    Header \o <<<<"p","a","t","h","s",":">>, <<" "," ","/","v","0","/","o","l","d",":">>, <<" "," "," "," ","$","r","e","f",":"," ",".","/","p","a","t","h","s","/","v","0","/","o","l","d",".","y","a","m","l">>,
                <<"c","o","m","p","o","n","e","n","t","s",":">>, <<" "," ","s","c","h","e","m","a","s",":">>, <<" "," ","p","a","r","a","m","e","t","e","r","s",":">>>>

RerunCandidates ==
    { F(<<"/","a","p","i","/","p","a","t","h","s","/","v","1","/","u","s","e","r","s",".","y","a","m","l">>), F(<<"/","a","p","i","/","p","a","t","h","s","/","v","1","-","b","e","t","a","/","o","r","d","e","r","s",".","y","a","m","l">>),
      F(<<"/","a","p","i","/","p","a","t","h","s","/","v","1","/","l","o","c","k","e","d",".","y","a","m","l">>),
      F(<<"/","a","p","i","/","c","o","m","p","o","n","e","n","t","s","/","s","c","h","e","m","a","s","/","f","o","o","B","a","r",".","y","a","m","l">>), F(<<"/","a","p","i","/","c","o","m","p","o","n","e","n","t","s","/","s","c","h","e","m","a","s","/","f","o","o","b","a","r",".","y","a","m","l">>),
      F(<<"/","a","p","i","/","c","o","m","p","o","n","e","n","t","s","/","s","c","h","e","m","a","s","/","u","s","e","r","-","a","c","c","o","u","n","t",".","y","a","m","l">>),
      F(<<"/","a","p","i","/","c","o","m","p","o","n","e","n","t","s","/","p","a","r","a","m","e","t","e","r","s","/","u","s","e","r","-","i","d",".","y","a","m","l">>) }

\* the orders of a walk that comes to return the file p too, the other files in the
\* order they had
WithFile(order, p) ==
    IF p \in Range(order) THEN {order}
    ELSE {SubSeq(order, 1, i) \o <<p>> \o SubSeq(order, i + 1, Len(order)) : i \in 0..Len(order)}

\* arg is what the root file held before the first run
InitRerun ==
    /\ cfg \in {Config(j, << >>, FALSE, FALSE, NoOutputs) : j \in BOOLEAN}
                \cup {ConfigRootInPaths(j) : j \in BOOLEAN}
    /\ arg \in {Absent, StaleDocument}
    /\ rootDoc = arg
    /\ \E fragments \in FileSystems(RerunCandidates) :
          /\ fs = IF arg = Absent THEN fragments ELSE fragments \cup WithDirs({F(cfg.RootPath)})
          /\ walk \in Perms(FilePaths(fs))
    /\ written = << >>
    /\ ret = NotReturned
    /\ pc = "idle"
    /\ val = NoVal /\ results = << >> /\ evalLog = << >> /\ events = << >>

\* a composer call that returned r: ensureDir has made the directories above the root
\* file, and os.Create the file, unless the call returned before it
Recomposed(r) ==
    /\ ret' = r.err
    /\ rootDoc' = RootAfter(r)
    /\ written' = Append(written, RootAfter(r))
    /\ IF r.doc = Unchanged
       THEN /\ fs' = fs \cup WithDirs({D(Dir(cfg.RootPath))})
            /\ walk' = walk
       ELSE /\ fs' = fs \cup WithDirs({F(cfg.RootPath)})
            /\ walk' \in WithFile(walk, cfg.RootPath)

RerunReference ==
    /\ pc = "idle"
    /\ ~cfg.Join
    /\ Len(written) < MaxRuns
    /\ \E r \in {writeRootYAML(cfg)} : Recomposed(r)
    /\ UNCHANGED <<cfg, pc, val, results, evalLog, events, arg>>

RerunJoined ==
    /\ pc = "idle"
    /\ cfg.Join
    /\ Len(written) < MaxRuns
    /\ \E r \in {writeRootJoinedYAML(cfg)} : Recomposed(r)
    /\ UNCHANGED <<cfg, pc, val, results, evalLog, events, arg>>

NextRerun == RerunReference \/ RerunJoined

SpecRerun == InitRerun /\ [][NextRerun]_vars

\* the root file lies in none of the three fragment directories
RootOutsideFragmentDirs ==
    /\ ~IsBelow(cfg.PathsDir, cfg.RootPath)
    /\ ~IsBelow(cfg.SchemasDir, cfg.RootPath)
    /\ ~IsBelow(cfg.ParamsDir, cfg.RootPath)

\* the line is a line of the document
HasLine(doc, line) == \E i \in DOMAIN doc : doc[i] = line

RootAmongPathsIsListedByTheNextRun ==
    /\ IsBelow(cfg.PathsDir, cfg.RootPath)
    /\ arg = Absent
    /\ Len(written) = 2
    /\ written[1] # << >>
    => written[2] # written[1] /\ HasLine(written[2], <<" "," ","/","r","o","o","t",":">>) /\ ~HasLine(written[1], <<" "," ","/","r","o","o","t",":">>)

====
